---- MODULE Spec2Model ----
(***************************************************************************)
(* Model of the gingin inventory worker (src/worker/src/index.js): the     *)
(* session-token service (generateJWT / verifyJWT), the request router     *)
(* (fetch), the login handler and the protected handlers.                  *)
(*                                                                         *)
(* Strings are sequences of one-character strings, so that split,     *)
(* startsWith, substring, btoa/atob and JSON.stringify/JSON.parse are      *)
(* computed character by character as the runtime computes them.           *)
(***************************************************************************)
EXTENDS Integers, Sequences, FiniteSets, TLC

(***************************************************************************)
(* Characters                                                              *)
(***************************************************************************)

\* The printable ASCII characters, code 32 .. 126, in code order (GRAVE
\* stands for the grave accent, code 96).
Ascii ==
  << " ", "!", "\"", "#", "$", "%", "&", "'", "(", ")", "*", "+", ",", "-", ".", "/",
     "0", "1", "2", "3", "4", "5", "6", "7", "8", "9", ":", ";", "<", "=", ">", "?",
     "@", "A", "B", "C", "D", "E", "F", "G", "H", "I", "J", "K", "L", "M", "N", "O",
     "P", "Q", "R", "S", "T", "U", "V", "W", "X", "Y", "Z", "[", "\\", "]", "^", "_",
     "GRAVE", "a", "b", "c", "d", "e", "f", "g", "h", "i", "j", "k", "l", "m", "n", "o",
     "p", "q", "r", "s", "t", "u", "v", "w", "x", "y", "z", "{", "|", "}", "~" >>

\* One character outside Latin-1 (code 8364), which btoa refuses.
Euro == "EURO"

Chars == {Ascii[i] : i \in 1..Len(Ascii)} \cup {Euro}

\* String.prototype.charCodeAt for one character.
CodeOf == [c \in Chars |-> IF c = Euro THEN 8364
                           ELSE 31 + (CHOOSE i \in 1..Len(Ascii) : Ascii[i] = c)]

\* String.fromCharCode for one code unit below 127.
CharOf(n) == Ascii[n - 31]

Digits == <<"0", "1", "2", "3", "4", "5", "6", "7", "8", "9">>

\* The base64 alphabet of btoa / atob, index 0 .. 63 at position 1 .. 64.
B64 ==
  << "A", "B", "C", "D", "E", "F", "G", "H", "I", "J", "K", "L", "M", "N", "O", "P",
     "Q", "R", "S", "T", "U", "V", "W", "X", "Y", "Z", "a", "b", "c", "d", "e", "f",
     "g", "h", "i", "j", "k", "l", "m", "n", "o", "p", "q", "r", "s", "t", "u", "v",
     "w", "x", "y", "z", "0", "1", "2", "3", "4", "5", "6", "7", "8", "9", "+", "/" >>

B64Chars == {B64[i] : i \in 1..64}

B64Index == [c \in B64Chars |-> (CHOOSE i \in 1..64 : B64[i] = c) - 1]

\* The value a function that threw is given in place of a result.
Throw == <<"#throw">>

\* String.prototype.replace(/x/g, y) for single characters.
ReplaceChar(s, x, y) == [i \in 1..Len(s) |-> IF s[i] = x THEN y ELSE s[i]]

\* String.prototype.replace(/x/g, empty).
RemoveChar(s, x) == SelectSeq(s, LAMBDA c : c # x)

\* String.prototype.toLowerCase on ASCII letters.
toLowerCase(s) ==
  [i \in 1..Len(s) |->
     IF s[i] # Euro /\ CodeOf[s[i]] >= 65 /\ CodeOf[s[i]] <= 90
     THEN CharOf(CodeOf[s[i]] + 32) ELSE s[i]]

\* String.prototype.startsWith.
startsWith(s, p) == Len(s) >= Len(p) /\ SubSeq(s, 1, Len(p)) = p

\* String.prototype.substring(n).
substring(s, n) == SubSeq(s, n + 1, Len(s))

(***************************************************************************)
(* btoa / atob and the base64url helpers                                   *)
(***************************************************************************)

\* btoa: throws on a character above code 255, else standard base64 with padding.
btoa(s) ==
  IF \E i \in 1..Len(s) : CodeOf[s[i]] > 255 THEN Throw
  ELSE
    LET n == Len(s)
        Byte(k) == IF k <= n THEN CodeOf[s[k]] ELSE 0
    IN [i \in 1..(4 * ((n + 2) \div 3)) |->
         LET g == (i - 1) \div 4
             r == (i - 1) % 4
             a == Byte(3 * g + 1)
             b == Byte(3 * g + 2)
             c == Byte(3 * g + 3)
         IN CASE r = 0 -> B64[(a \div 4) + 1]
              [] r = 1 -> B64[(a % 4) * 16 + (b \div 16) + 1]
              [] r = 2 -> IF 3 * g + 2 > n THEN "="
                          ELSE B64[(b % 16) * 4 + (c \div 64) + 1]
              [] r = 3 -> IF 3 * g + 3 > n THEN "=" ELSE B64[(c % 64) + 1]]

\* .replace(/\+/g, "-").replace(/\//g, "_").replace(/=/g, empty)
UrlSafe(b) ==
  IF b = Throw THEN Throw
  ELSE RemoveChar(ReplaceChar(ReplaceChar(b, "+", "-"), "/", "_"), "=")

base64UrlEncode(str) == UrlSafe(btoa(str))

\* atob, step 2: up to two trailing "=" of a string whose length is a
\* multiple of 4 are removed.
StripPadding(s1) ==
  IF Len(s1) % 4 = 0 /\ Len(s1) >= 2 /\ s1[Len(s1)] = "=" /\ s1[Len(s1) - 1] = "="
    THEN SubSeq(s1, 1, Len(s1) - 2)
  ELSE IF Len(s1) % 4 = 0 /\ Len(s1) >= 1 /\ s1[Len(s1)] = "="
    THEN SubSeq(s1, 1, Len(s1) - 1)
  ELSE s1

\* atob, step 4: the j-th byte of the sextets of s.
ByteAt(s, j) ==
  LET k == ((8 * (j - 1)) \div 6) + 1
      off == (8 * (j - 1)) % 6
  IN CASE off = 0 -> B64Index[s[k]] * 4 + (B64Index[s[k + 1]] \div 16)
       [] off = 2 -> (B64Index[s[k]] % 16) * 16 + (B64Index[s[k + 1]] \div 4)
       [] off = 4 -> (B64Index[s[k]] % 4) * 64 + B64Index[s[k + 1]]

\* atob, steps 3 and 4: a length of 1 modulo 4 or a character outside the
\* alphabet fails; the sextets are decoded and leftover bits dropped.  A
\* decoded byte outside printable ASCII is outside the modelled character set
\* and is reported as a failure to decode.
DecodeSextets(s) ==
  IF Len(s) % 4 = 1 \/ \E i \in 1..Len(s) : s[i] \notin B64Chars THEN Throw
  ELSE IF \E j \in 1..((Len(s) * 6) \div 8) : ByteAt(s, j) < 32 \/ ByteAt(s, j) > 126
    THEN Throw
  ELSE [j \in 1..((Len(s) * 6) \div 8) |-> CharOf(ByteAt(s, j))]

\* atob (forgiving-base64 decode); step 1 removes ASCII whitespace.
atob(s0) == DecodeSextets(StripPadding(RemoveChar(s0, " ")))

\* while (str.length % 4) str += "="
PadTo4(s) == s \o [i \in 1..((4 - (Len(s) % 4)) % 4) |-> "="]

base64UrlDecode(str) ==
  atob(PadTo4(ReplaceChar(ReplaceChar(str, "-", "+"), "_", "/")))

(***************************************************************************)
(* JavaScript values and JSON                                              *)
(*                                                                         *)
(* A value is tagged: a string (a character sequence), a number or         *)
(* undefined.  An object is the sequence of its <<key, value>> members in  *)
(* insertion order, which is the order JSON.stringify walks.               *)
(***************************************************************************)

JStr(chars) == [t |-> "str", v |-> chars]
JNum(n) == [t |-> "num", v |-> n]
Undefined == [t |-> "undef", v |-> <<>>]

\* a === b on tagged values.
JsEq(a, b) == a.t = b.t /\ (a.t = "undef" \/ a.v = b.v)

\* !x on tagged values: undefined, the empty string and 0 are falsy.
Falsy(x) ==
  \/ x.t = "undef"
  \/ x.t = "str" /\ x.v = <<>>
  \/ x.t = "num" /\ x.v = 0

\* obj.key: the member's value, undefined when the object has no such member.
Get(obj, key) ==
  IF \E i \in 1..Len(obj) : obj[i][1] = key
  THEN obj[CHOOSE i \in 1..Len(obj) :
             obj[i][1] = key /\ \A j \in (i + 1)..Len(obj) : obj[j][1] # key][2]
  ELSE Undefined

\* Member-wise equality of two objects.
ObjEq(a, b) ==
  /\ Len(a) = Len(b)
  /\ \A i \in 1..Len(a) : a[i][1] = b[i][1] /\ JsEq(a[i][2], b[i][2])

\* Number.prototype.toString for a natural number.
RECURSIVE NumToString(_)
NumToString(n) ==
  IF n < 10 THEN <<Digits[n + 1]>>
  ELSE NumToString(n \div 10) \o <<Digits[(n % 10) + 1]>>

\* Escape with the escaping left out: a string is written between quotes as
\* it is.
EscapeNothing(s) == s

\* The JSON text of a string: quoted, with the quote and the backslash escaped.
RECURSIVE Escape(_)
Escape(s) ==
  IF s = <<>> THEN <<>>
  ELSE (IF Head(s) = "\"" \/ Head(s) = "\\" THEN <<"\\", Head(s)>> ELSE <<Head(s)>>)
       \o Escape(Tail(s))

Quote(s) == <<"\"">> \o Escape(s) \o <<"\"">>

StringifyValue(x) == IF x.t = "str" THEN Quote(x.v) ELSE NumToString(x.v)

\* JSON.stringify of an object: members whose value is undefined are left out.
RECURSIVE StringifyMembers(_)
StringifyMembers(ms) ==
  IF ms = <<>> THEN <<>>
  ELSE Quote(ms[1][1]) \o <<":">> \o StringifyValue(ms[1][2])
       \o (IF Len(ms) > 1 THEN <<",">> ELSE <<>>)
       \o StringifyMembers(Tail(ms))

JSONstringify(obj) ==
  <<"{">> \o StringifyMembers(SelectSeq(obj, LAMBDA m : m[2].t # "undef")) \o <<"}">>

\* JSON.parse, for objects whose members are strings and natural numbers
\* (the only JSON text this worker ever signs); any other text throws.
\* Each scanner returns [ok, val, next]: next is the index after the item.
ParseFail == [ok |-> FALSE, val |-> <<>>, next |-> 0]

RECURSIVE ScanString(_, _, _)
ScanString(s, j, acc) ==
  IF j > Len(s) THEN ParseFail
  ELSE IF s[j] = "\"" THEN [ok |-> TRUE, val |-> acc, next |-> j + 1]
  ELSE IF s[j] = "\\"
    THEN IF j + 1 <= Len(s) /\ (s[j + 1] = "\"" \/ s[j + 1] = "\\")
         THEN ScanString(s, j + 2, Append(acc, s[j + 1]))
         ELSE ParseFail
  ELSE ScanString(s, j + 1, Append(acc, s[j]))

IsDigit(c) == \E d \in 1..10 : Digits[d] = c

DigitValue(c) == (CHOOSE d \in 1..10 : Digits[d] = c) - 1

RECURSIVE ScanNumber(_, _, _)
ScanNumber(s, j, acc) ==
  IF j <= Len(s) /\ IsDigit(s[j])
  THEN ScanNumber(s, j + 1, acc * 10 + DigitValue(s[j]))
  ELSE [ok |-> TRUE, val |-> acc, next |-> j]

StringValue(r) ==
  IF r.ok THEN [ok |-> TRUE, val |-> JStr(r.val), next |-> r.next] ELSE ParseFail

NumberValue(r) == [ok |-> TRUE, val |-> JNum(r.val), next |-> r.next]

ScanValue(s, j) ==
  IF j > Len(s) THEN ParseFail
  ELSE IF s[j] = "\"" THEN StringValue(ScanString(s, j + 1, <<>>))
  ELSE IF IsDigit(s[j]) /\ (s[j] # "0" \/ j = Len(s) \/ ~IsDigit(s[j + 1]))
    THEN NumberValue(ScanNumber(s, j, 0))
  ELSE ParseFail

\* A later member with the same key replaces the earlier one (in its place).
PutMember(obj, key, val) ==
  IF \E i \in 1..Len(obj) : obj[i][1] = key
  THEN [i \in 1..Len(obj) |-> IF obj[i][1] = key THEN <<key, val>> ELSE obj[i]]
  ELSE Append(obj, <<key, val>>)

RECURSIVE ScanMembers(_, _, _)

\* After the member key k and its value x: a comma and more members, or the
\* closing brace at the end of the text.
AfterValue(s, k, x, acc) ==
  IF ~x.ok \/ x.next > Len(s) THEN ParseFail
  ELSE IF s[x.next] = ","
    THEN ScanMembers(s, x.next + 1, PutMember(acc, k.val, x.val))
  ELSE IF s[x.next] = "}" /\ x.next = Len(s)
    THEN [ok |-> TRUE, val |-> PutMember(acc, k.val, x.val), next |-> x.next + 1]
  ELSE ParseFail

\* After the member key k: a colon and the value.
AfterKey(s, k, acc) ==
  IF ~k.ok \/ k.next > Len(s) THEN ParseFail
  ELSE IF s[k.next] # ":" THEN ParseFail
  ELSE AfterValue(s, k, ScanValue(s, k.next + 1), acc)

ScanMembers(s, j, acc) ==
  IF j > Len(s) THEN ParseFail
  ELSE IF s[j] # "\"" THEN ParseFail
  ELSE AfterKey(s, ScanString(s, j + 1, <<>>), acc)

ParseResult(r) == [ok |-> r.ok, val |-> IF r.ok THEN r.val ELSE <<>>]

\* The result is [ok, val]: ok is FALSE when JSON.parse throws.
JSONparse(s) ==
  IF s = Throw \/ Len(s) < 2 THEN [ok |-> FALSE, val |-> <<>>]
  ELSE IF s[1] # "{" THEN [ok |-> FALSE, val |-> <<>>]
  ELSE IF s = <<"{", "}">> THEN [ok |-> TRUE, val |-> <<>>]
  ELSE ParseResult(ScanMembers(s, 2, <<>>))

(***************************************************************************)
(* Session tokens                                                          *)
(***************************************************************************)

\* String.prototype.split on ".".
Split(s) ==
  LET dots == {i \in 1..Len(s) : s[i] = "."}
      n == Cardinality(dots) + 1
      Dot(k) == IF k = 0 THEN 0
                ELSE IF k = n THEN Len(s) + 1
                ELSE CHOOSE i \in dots : Cardinality({j \in dots : j < i}) = k - 1
  IN [k \in 1..n |-> SubSeq(s, Dot(k - 1) + 1, Dot(k) - 1)]

\* crypto.subtle.sign with HMAC / SHA-256, as an ideal MAC: the tag is an
\* injective function of (key, message), so two different (key, message)
\* pairs never have the same tag.  The tag is written as the characters of
\* the key, a separator and the message.
HmacSha256(secret, data) == secret \o <<"|">> \o data

\* createSignature signing the header segment alone.
createSignatureOfHeader(data, secret) ==
  base64UrlEncode(HmacSha256(secret, Split(data)[1]))

createSignature(data, secret) == base64UrlEncode(HmacSha256(secret, data))

\* env.JWT_SECRET
JWT_SECRET == <<"s", "3", "c", "r", "e", "t">>

K_alg == <<"a", "l", "g">>
K_typ == <<"t", "y", "p">>
K_email == <<"e", "m", "a", "i", "l">>
K_role == <<"r", "o", "l", "e">>
K_iat == <<"i", "a", "t">>
K_exp == <<"e", "x", "p">>
K_password == <<"p", "a", "s", "s", "w", "o", "r", "d">>
K_passwordHash == <<"p", "a", "s", "s", "w", "o", "r", "d", "H", "a", "s", "h">>
K_itemId == <<"i", "t", "e", "m", "I", "d">>
K_quantity == <<"q", "u", "a", "n", "t", "i", "t", "y">>
K_message == <<"m", "e", "s", "s", "a", "g", "e">>

\* 24 * 60 * 60
TokenLifetime == 86400

\* The header object of generateJWT.
JwtHeader == << <<K_alg, JStr(<<"H", "S", "2", "5", "6">>)>>, <<K_typ, JStr(<<"J", "W", "T">>)>> >>

\* The payload object of generateJWT; the two Date.now() reads are now1 and now2.
JwtPayload(userData, now1, now2) ==
  << <<K_email, Get(userData, K_email)>>,
     <<K_role, Get(userData, K_role)>>,
     <<K_iat, JNum(now1)>>,
     <<K_exp, JNum(now2 + TokenLifetime)>> >>

\* The claims a payload object carries once serialised: members that are
\* undefined are not written.
Claims(payload) == SelectSeq(payload, LAMBDA m : m[2].t # "undef")

\* `${encodedHeader}.${encodedPayload}.${signature}`
Join3(h, p, sig) == h \o <<".">> \o p \o <<".">> \o sig

\* The last two lines of generateJWT: sign header.payload and join.
SignAndJoin(encodedHeader, encodedPayload, secret) ==
  IF encodedPayload = Throw THEN Throw
  ELSE Join3(encodedHeader, encodedPayload,
             createSignature(encodedHeader \o <<".">> \o encodedPayload, secret))

\* generateJWT: the token, or Throw when btoa rejects the payload text.
generateJWT(userData, secret, now1, now2) ==
  SignAndJoin(base64UrlEncode(JSONstringify(JwtHeader)),
              base64UrlEncode(JSONstringify(JwtPayload(userData, now1, now2))),
              secret)

\* The errors verifyJWT throws, and the two the runtime throws inside it.
ErrInvalidToken == "Invalid token"
ErrInvalidSignature == "Invalid signature"
ErrTokenExpired == "Token expired"
ErrDecode == "InvalidCharacterError"
ErrSyntax == "SyntaxError"
NoError == "none"

\* decodedPayload.exp < now: a missing exp compares false.
ExpBefore(payload, now) ==
  LET e == Get(payload, K_exp) IN e.t = "num" /\ e.v < now

VerifyFailed(e) == [err |-> e, payload |-> <<>>]

\* How many characters signature !== expectedSignature looks at: strings of
\* different lengths differ at once, strings of equal length are read up to
\* the first character in which they differ.
Inspected(signature, expectedSignature) ==
  IF Len(signature) # Len(expectedSignature) THEN 0
  ELSE IF signature = expectedSignature THEN Len(signature)
  ELSE CHOOSE i \in 1..Len(signature) :
         /\ signature[i] # expectedSignature[i]
         /\ \A j \in 1..(i - 1) : signature[j] = expectedSignature[j]

\* What verifyJWT threw or returned, with the work its comparison did.
Compared(r, inspected) == [err |-> r.err, payload |-> r.payload, inspected |-> inspected]

\* CheckExpiry throwing the error of the signature check for an expired token.
CheckExpiryAsSignature(decodedPayload, now) ==
  IF ~decodedPayload.ok THEN VerifyFailed(ErrSyntax)
  ELSE IF ExpBefore(decodedPayload.val, now) THEN VerifyFailed(ErrInvalidSignature)
  ELSE [err |-> NoError, payload |-> decodedPayload.val]

\* verifyJWT, the expiry check on the parsed payload.
CheckExpiry(decodedPayload, now) ==
  IF ~decodedPayload.ok THEN VerifyFailed(ErrSyntax)
  ELSE IF ExpBefore(decodedPayload.val, now) THEN VerifyFailed(ErrTokenExpired)
  ELSE [err |-> NoError, payload |-> decodedPayload.val]

\* verifyJWT, JSON.parse(base64UrlDecode(payload)).
DecodePayload(text, now) ==
  IF text = Throw THEN VerifyFailed(ErrDecode) ELSE CheckExpiry(JSONparse(text), now)

\* CheckSignature letting an empty signature segment through.
CheckSignatureUnlessEmpty(payload, signature, expectedSignature, now) ==
  Compared(IF signature # <<>> /\ signature # expectedSignature
             THEN VerifyFailed(ErrInvalidSignature)
           ELSE DecodePayload(base64UrlDecode(payload), now),
           Inspected(signature, expectedSignature))

\* CheckSignature decoding the payload and checking its expiry first.
CheckSignatureAfterExpiry(payload, signature, expectedSignature, now) ==
  Compared(IF DecodePayload(base64UrlDecode(payload), now).err # NoError
             THEN DecodePayload(base64UrlDecode(payload), now)
           ELSE IF signature # expectedSignature THEN VerifyFailed(ErrInvalidSignature)
           ELSE DecodePayload(base64UrlDecode(payload), now),
           Inspected(signature, expectedSignature))

\* verifyJWT, the comparison of the presented and the recomputed signature.
CheckSignature(payload, signature, expectedSignature, now) ==
  Compared(IF signature # expectedSignature THEN VerifyFailed(ErrInvalidSignature)
           ELSE DecodePayload(base64UrlDecode(payload), now),
           Inspected(signature, expectedSignature))

\* verifyJWT, after token.split: the part count, then the signature.
CheckParts(parts, secret, now) ==
  IF Len(parts) # 3 THEN Compared(VerifyFailed(ErrInvalidToken), 0)
  ELSE CheckSignature(parts[2], parts[3],
                      createSignature(parts[1] \o <<".">> \o parts[2], secret), now)

\* verifyJWT: [err, payload, inspected]; err is NoError when the payload is
\* returned.
verifyJWT(token, secret, now) == CheckParts(Split(token), secret, now)

(***************************************************************************)
(* Requests, responses and the external services                           *)
(***************************************************************************)

R_admin == <<"a", "d", "m", "i", "n">>
R_manager == <<"m", "a", "n", "a", "g", "e", "r">>
R_staff == <<"s", "t", "a", "f", "f">>

\* An HTTP response: Response(JSON.stringify(data), {status}).  A handler
\* promise that rejects gives no Response at all: status 0, kind "rejected".
jsonResponse(data, status) == [status |-> status, body |-> data]

ErrorBody(msg) == [kind |-> "error", error |-> msg]

Rejected(msg) == [status |-> 0, body |-> [kind |-> "rejected", error |-> msg]]

\* What one run of a handler produced: the response and the ordered log of
\* the steps and external calls it made.
Done(resp, log) == [resp |-> resp, log |-> log]

\* The outcome the external services give to the calls of one request.  At
\* most one of them fails per request; the fault names the failing call.
Faults ==
  {"none", "sign", "exchange1", "exchange2", "exchange3", "read", "write1",
   "write2", "gemini", "telegram"}

\* The item ids of column A of the Inventory sheet, rows 2 and below.
SheetRows == <<<<"A", "1">>, <<"B", "2">>, <<"A", "1">>>>

\* bcrypt, as an ideal password hash: the hash names the password it was
\* made from, and compare accepts that password alone.
BcryptPrefix == <<"$", "2", "a", "$">>

BcryptHash(password) == BcryptPrefix \o password

\* bcryptCompare matching without regard to letter case.
bcryptCompareIgnoreCase(password, hash) ==
  /\ startsWith(hash, BcryptPrefix)
  /\ toLowerCase(substring(hash, Len(BcryptPrefix))) = toLowerCase(password)

bcryptCompare(password, hash) ==
  startsWith(hash, BcryptPrefix) /\ substring(hash, Len(BcryptPrefix)) = password

\* verifyPassword: bcrypt.compare throws on a non-string argument, and the
\* catch turns every throw into false.
verifyPassword(password, hash) ==
  password.t = "str" /\ hash.t = "str" /\ bcryptCompare(password.v, hash.v)

\* env.USERS_KV.get(key, "json"): the record, or null for an absent key.
KvGet(store, key) ==
  IF key \in DOMAIN store THEN [found |-> TRUE, val |-> store[key]]
  ELSE [found |-> FALSE, val |-> <<>>]

UserKeyPrefix == <<"u", "s", "e", "r", ":">>

(***************************************************************************)
(* handleLogin                                                             *)
(***************************************************************************)

LogLoginBody == <<"handleLogin", "request.json">>
LogLoginKv == <<"handleLogin", "request.json", "USERS_KV.get">>
LogLoginPassword == <<"handleLogin", "request.json", "USERS_KV.get", "verifyPassword">>
LogLoginJwt ==
  <<"handleLogin", "request.json", "USERS_KV.get", "verifyPassword", "generateJWT">>

\* handleLogin, the response built from the token generateJWT returned.
LoginIssue(userData, token) ==
  IF token = Throw THEN Done(Rejected("InvalidCharacterError"), LogLoginJwt)
  ELSE Done(jsonResponse([kind |-> "login",
                          token |-> token,
                          email |-> Get(userData, K_email),
                          role |-> Get(userData, K_role)], 200),
            LogLoginJwt)

\* LoginLookup answering an absent record with a response of its own.
LoginLookupNotFound(userData, password, now1, now2) ==
  IF ~userData.found
    THEN Done(jsonResponse(ErrorBody("User not found"), 404), LogLoginKv)
  ELSE IF Falsy(Get(userData.val, K_passwordHash))
    THEN Done(jsonResponse(ErrorBody("Invalid user data structure"), 500), LogLoginKv)
  ELSE IF ~verifyPassword(password, Get(userData.val, K_passwordHash))
    THEN Done(jsonResponse(ErrorBody("Invalid credentials"), 401), LogLoginPassword)
  ELSE LoginIssue(userData.val, generateJWT(userData.val, JWT_SECRET, now1, now2))

\* handleLogin, from the record USERS_KV.get returned to generateJWT.
LoginLookup(userData, password, now1, now2) ==
  IF ~userData.found
    THEN Done(jsonResponse(ErrorBody("Invalid credentials"), 401), LogLoginKv)
  ELSE IF Falsy(Get(userData.val, K_passwordHash))
    THEN Done(jsonResponse(ErrorBody("Invalid user data structure"), 500), LogLoginKv)
  ELSE IF ~verifyPassword(password, Get(userData.val, K_passwordHash))
    THEN Done(jsonResponse(ErrorBody("Invalid credentials"), 401), LogLoginPassword)
  ELSE LoginIssue(userData.val, generateJWT(userData.val, JWT_SECRET, now1, now2))

\* LoginWithBody reading the key-value store before it validates the body.
LoginWithBodyLookupFirst(email, password, store, now1, now2) ==
  IF Falsy(email) \/ Falsy(password)
    THEN Done(jsonResponse(ErrorBody("Email and password required"), 400), LogLoginKv)
  ELSE IF email.t # "str"
    THEN Done(Rejected("TypeError"), LogLoginBody)
  ELSE LoginLookup(KvGet(store, UserKeyPrefix \o toLowerCase(email.v)), password,
                   now1, now2)

\* LoginWithBody looking the email up as it was typed.
LoginWithBodyExactCase(email, password, store, now1, now2) ==
  IF Falsy(email) \/ Falsy(password)
    THEN Done(jsonResponse(ErrorBody("Email and password required"), 400), LogLoginBody)
  ELSE IF email.t # "str"
    THEN Done(Rejected("TypeError"), LogLoginBody)
  ELSE LoginLookup(KvGet(store, UserKeyPrefix \o email.v), password, now1, now2)

\* handleLogin, from the destructured body to the key-value lookup.
LoginWithBody(email, password, store, now1, now2) ==
  IF Falsy(email) \/ Falsy(password)
    THEN Done(jsonResponse(ErrorBody("Email and password required"), 400), LogLoginBody)
  ELSE IF email.t # "str"
    THEN Done(Rejected("TypeError"), LogLoginBody)
  ELSE LoginLookup(KvGet(store, UserKeyPrefix \o toLowerCase(email.v)), password,
                   now1, now2)

handleLogin(req, store, now1, now2) ==
  IF req.method # "POST"
    THEN Done(jsonResponse(ErrorBody("Method not allowed"), 405), <<"handleLogin">>)
  ELSE IF ~req.body.json
    THEN Done(Rejected("SyntaxError"), LogLoginBody)
  ELSE LoginWithBody(Get(req.body.val, K_email), Get(req.body.val, K_password), store,
                     now1, now2)

(***************************************************************************)
(* verifyAuth                                                              *)
(***************************************************************************)

BearerPrefix == <<"B", "e", "a", "r", "e", "r", " ">>

\* verifyAuth, the try / catch around verifyJWT.
AuthResult(r) ==
  [authenticated |-> r.err = NoError, user |-> r.payload, err |-> r.err,
   log |-> <<"verifyAuth", "verifyJWT">>, inspected |-> r.inspected]

\* [authenticated, user, err, log, inspected]: err is the error verifyJWT
\* threw (NoError when it was not called or returned), which the catch
\* discards.
verifyAuth(req, now) ==
  IF ~req.auth.present
    THEN [authenticated |-> FALSE, user |-> <<>>, err |-> NoError, log |-> <<"verifyAuth">>,
          inspected |-> 0]
  ELSE IF ~startsWith(req.auth.val, BearerPrefix)
    THEN [authenticated |-> FALSE, user |-> <<>>, err |-> NoError, log |-> <<"verifyAuth">>,
          inspected |-> 0]
  ELSE AuthResult(verifyJWT(substring(req.auth.val, 7), JWT_SECRET, now))

(***************************************************************************)
(* The Sheets, Gemini and Telegram calls                                   *)
(***************************************************************************)

\* getGoogleSheetsToken, the k-th call of a request: signWithPrivateKey
\* throws on a key it cannot import; the token endpoint's answer is parsed
\* whatever its status, so a refused exchange returns undefined.
\* [threw, valid, log]: valid says the result is a token the endpoint issued.
getGoogleSheetsToken(k, fault) ==
  IF fault = "sign"
  THEN [threw |-> TRUE, valid |-> FALSE, log |-> <<"sign">>]
  ELSE [threw |-> FALSE,
        valid |-> fault # (CASE k = 1 -> "exchange1" [] k = 2 -> "exchange2"
                             [] OTHER -> "exchange3"),
        log |-> <<"sign", "exchange">>]

\* fetchInventoryFromSheets, the GET with the token t: [threw, log].
SheetsGet(t, fault) ==
  IF t.threw THEN [threw |-> TRUE, log |-> t.log]
  ELSE [threw |-> ~t.valid \/ fault = "read", log |-> Append(t.log, "sheets.get")]

fetchInventoryFromSheets(fault) == SheetsGet(getGoogleSheetsToken(1, fault), fault)

\* FindRow without the break: the sheet row of the last matching row.
FindLastRow(rows, itemId) ==
  IF \E i \in 1..Len(rows) : rows[i] = itemId
  THEN (CHOOSE i \in 1..Len(rows) :
          rows[i] = itemId /\ \A j \in (i + 1)..Len(rows) : rows[j] # itemId) + 1
  ELSE -1

\* The loop of updateStockInSheets: the sheet row of the first row whose
\* column A is itemId, -1 when there is none.
FindRow(rows, itemId) ==
  IF \E i \in 1..Len(rows) : rows[i] = itemId
  THEN (CHOOSE i \in 1..Len(rows) :
          rows[i] = itemId /\ \A j \in 1..(i - 1) : rows[j] # itemId) + 1
  ELSE -1

\* SheetsPut sending both PUTs with the token of the GET.
SheetsPutReusingToken(log, t2, t3, rowIndex) ==
  [threw |-> FALSE,
   log |-> log \o <<"sheets.put.quantity", "Inventory!D", "sheets.put.timestamp",
                    "Inventory!F">>]

\* The range of one cell of the Inventory sheet, as the PUT urls name it.
CellRange(column, rowIndex) == "Inventory!" \o column \o ToString(rowIndex)

\* updateStockInSheets, the two PUTs with the tokens t2 and t3, each logged
\* with the range it writes; their answers are not read.
SheetsPut(log, t2, t3, rowIndex) ==
  IF t2.threw THEN [threw |-> TRUE, log |-> log \o t2.log]
  ELSE IF t3.threw
    THEN [threw |-> TRUE,
          log |-> log \o t2.log \o <<"sheets.put.quantity", CellRange("D", rowIndex)>>
                      \o t3.log]
  ELSE [threw |-> FALSE,
        log |-> log \o t2.log \o <<"sheets.put.quantity", CellRange("D", rowIndex)>>
                    \o t3.log \o <<"sheets.put.timestamp", CellRange("F", rowIndex)>>]

\* updateStockInSheets, after the GET: the row search.
SheetsFind(read, itemId, fault) ==
  IF read.threw THEN read
  ELSE IF itemId.t # "str" THEN [threw |-> TRUE, log |-> read.log]
  ELSE IF FindRow(SheetRows, itemId.v) = -1 THEN [threw |-> TRUE, log |-> read.log]
  ELSE SheetsPut(read.log, getGoogleSheetsToken(2, fault), getGoogleSheetsToken(3, fault),
                 FindRow(SheetRows, itemId.v))

\* updateStockInSheets: [threw, log].
updateStockInSheets(itemId, fault) ==
  SheetsFind(SheetsGet(getGoogleSheetsToken(1, fault), fault), itemId, fault)

\* generateGeminiReport: [threw, log].
generateGeminiReport(fault) == [threw |-> fault = "gemini", log |-> <<"gemini">>]

\* sendTelegramMessage: [threw, log].
sendTelegramMessage(fault) == [threw |-> fault = "telegram", log |-> <<"telegram.send">>]

(***************************************************************************)
(* The service-account assertion and the token exchange                    *)
(***************************************************************************)

PemHeader ==
  <<"-", "-", "-", "-", "-", "B", "E", "G", "I", "N", " ", "P", "R", "I", "V", "A",
    "T", "E", " ", "K", "E", "Y", "-", "-", "-", "-", "-">>

PemFooter ==
  <<"-", "-", "-", "-", "-", "E", "N", "D", " ", "P", "R", "I", "V", "A", "T", "E",
    " ", "K", "E", "Y", "-", "-", "-", "-", "-">>

\* String.prototype.replace(p, empty) for a string p: the first occurrence.
RemoveFirst(s, p) ==
  IF \E i \in 1..(Len(s) - Len(p) + 1) : SubSeq(s, i, i + Len(p) - 1) = p
  THEN LET i == CHOOSE k \in 1..(Len(s) - Len(p) + 1) :
                  /\ SubSeq(s, k, k + Len(p) - 1) = p
                  /\ \A j \in 1..(k - 1) : SubSeq(s, j, j + Len(p) - 1) # p
       IN SubSeq(s, 1, i - 1) \o SubSeq(s, i + Len(p), Len(s))
  ELSE s

\* env.GOOGLE_SERVICE_ACCOUNT_KEY.replace(/\\n/g, "\n"): a backslash followed
\* by n becomes a line feed.
RECURSIVE UnescapeNewlines(_)
UnescapeNewlines(s) ==
  IF Len(s) < 2 THEN s
  ELSE IF s[1] = "\\" /\ s[2] = "n" THEN <<"\n">> \o UnescapeNewlines(SubSeq(s, 3, Len(s)))
  ELSE <<s[1]>> \o UnescapeNewlines(Tail(s))

\* .replace(/\s/g, empty)
RemoveWhitespace(s) == SelectSeq(s, LAMBDA c : c # " " /\ c # "\n")

\* The base64 text between the PEM header and footer.
PemContents(privateKeyPEM) ==
  RemoveWhitespace(RemoveFirst(RemoveFirst(privateKeyPEM, PemHeader), PemFooter))

\* crypto.subtle.importKey("pkcs8", ...): a PKCS#8 structure is a DER
\* SEQUENCE, whose first byte is 0x30; anything else is refused.
ImportsAsPkcs8(der) == der # Throw /\ Len(der) > 0 /\ der[1] = "0"

\* RSASSA-PKCS1-v1_5 with SHA-256, as an ideal signature: it names the key
\* and the data it was made from, and nothing else produces it.
RsaSign(der, data) == der \o <<"|">> \o data

SigningFailure == [threw |-> TRUE, val |-> <<>>]

\* signWithPrivateKey, after atob: import and sign, or the error of the catch.
SignWithDer(data, der) ==
  IF ~ImportsAsPkcs8(der) THEN SigningFailure
  ELSE [threw |-> FALSE, val |-> base64UrlEncode(RsaSign(der, data))]

\* signWithPrivateKey of the worker: [threw, val]; every failure inside the
\* try is rethrown as "Failed to sign JWT with RSA private key".
signWithPrivateKey(data, privateKeyPEM) == SignWithDer(data, atob(PemContents(privateKeyPEM)))

\* signRS256 of the Sheets utility module: the key is not used.
signRS256(data, privateKeyPEM) == [threw |-> FALSE, val |-> base64UrlEncode(data)]

K_iss == <<"i", "s", "s">>
K_scope == <<"s", "c", "o", "p", "e">>
K_aud == <<"a", "u", "d">>
K_access_token == <<"a", "c", "c", "e", "s", "s", "_", "t", "o", "k", "e", "n">>

SheetsScope ==
  <<"h", "t", "t", "p", "s", ":", "/", "/", "w", "w", "w", ".", "g", "o", "o", "g",
    "l", "e", "a", "p", "i", "s", ".", "c", "o", "m", "/", "a", "u", "t", "h", "/",
    "s", "p", "r", "e", "a", "d", "s", "h", "e", "e", "t", "s">>

TokenUri ==
  <<"h", "t", "t", "p", "s", ":", "/", "/", "o", "a", "u", "t", "h", "2", ".", "g",
    "o", "o", "g", "l", "e", "a", "p", "i", "s", ".", "c", "o", "m", "/", "t", "o",
    "k", "e", "n">>

AssertionLifetime == 3600

\* The claim object getGoogleSheetsToken builds (the same in both modules).
AssertionClaims(serviceAccountEmail, t) ==
  << <<K_iss, JStr(serviceAccountEmail)>>, <<K_scope, JStr(SheetsScope)>>,
     <<K_aud, JStr(TokenUri)>>, <<K_exp, JNum(t + AssertionLifetime)>>,
     <<K_iat, JNum(t)>> >>

AssertionHeader ==
  << <<K_alg, JStr(<<"R", "S", "2", "5", "6">>)>>, <<K_typ, JStr(<<"J", "W", "T">>)>> >>

\* createServiceAccountJWT, the last line: [threw, val].
JoinAssertion(data, signature) ==
  IF signature.threw THEN SigningFailure
  ELSE [threw |-> FALSE, val |-> data \o <<".">> \o signature.val]

\* The text that is signed: encodedHeader.encodedPayload.
AssertionData(claims) ==
  base64UrlEncode(JSONstringify(AssertionHeader)) \o <<".">>
    \o base64UrlEncode(JSONstringify(claims))

\* createServiceAccountJWT, once the text to sign is built.
SignAssertion(data, privateKey) == JoinAssertion(data, signWithPrivateKey(data, privateKey))

\* createServiceAccountJWT of the worker.
createServiceAccountJWT(claims, privateKey) == SignAssertion(AssertionData(claims), privateKey)

Sheets_SignAssertion(data, privateKey) == JoinAssertion(data, signRS256(data, privateKey))

\* createServiceAccountJWT of the Sheets utility module.
Sheets_createServiceAccountJWT(claims, privateKey) ==
  Sheets_SignAssertion(AssertionData(claims), privateKey)

\* The answer of https://oauth2.googleapis.com/token: [status, body].
TokenResponse(status) ==
  [status |-> status,
   body |-> IF status = 200
            THEN << <<K_access_token, JStr(<<"y", "a", "2", "9">>)>> >>
            ELSE << <<<<"e", "r", "r", "o", "r">>,
                      JStr(<<"i", "n", "v", "a", "l", "i", "d">>)>> >> ]

\* Response.ok
Ok(response) == response.status >= 200 /\ response.status <= 299

\* What a call of getGoogleSheetsToken came to: it threw the message, or it
\* returned the value (undefined when the body has no access_token).
TokenThrew(message) == [threw |-> TRUE, message |-> message, val |-> Undefined]
TokenReturned(val) == [threw |-> FALSE, message |-> <<>>, val |-> val]

SignErrorMessage ==
  <<"F", "a", "i", "l", "e", "d", " ", "t", "o", " ", "s", "i", "g", "n", " ", "J",
    "W", "T", " ", "w", "i", "t", "h", " ", "R", "S", "A", " ", "p", "r", "i", "v",
    "a", "t", "e", " ", "k", "e", "y">>

ExchangeErrorPrefix ==
  <<"F", "a", "i", "l", "e", "d", " ", "t", "o", " ", "g", "e", "t", " ", "G", "o",
    "o", "g", "l", "e", " ", "O", "A", "u", "t", "h", " ", "t", "o", "k", "e", "n",
    ":", " ">>

\* getGoogleSheetsToken of the worker, from the assertion and the answer of
\* the token endpoint: the answer's status is not looked at.
TokenFromExchange(jwt, response) ==
  IF jwt.threw THEN TokenThrew(SignErrorMessage)
  ELSE TokenReturned(Get(response.body, K_access_token))

\* getGoogleSheetsToken of the Sheets utility module: a status that is not
\* ok throws, the status in the message.
Sheets_TokenFromExchange(jwt, response) ==
  IF jwt.threw THEN TokenThrew(SignErrorMessage)
  ELSE IF ~Ok(response)
    THEN TokenThrew(ExchangeErrorPrefix \o NumToString(response.status))
  ELSE TokenReturned(Get(response.body, K_access_token))

(***************************************************************************)
(* The protected handlers                                                  *)
(***************************************************************************)

handleGetUser(user) ==
  Done(jsonResponse([kind |-> "user", email |-> Get(user, K_email),
                     role |-> Get(user, K_role)], 200),
       <<"handleGetUser">>)

\* A handler's try / catch around an external call r: the failure response
\* when it threw, the success response otherwise.
TryCatch(r, log, okBody, failMessage) ==
  IF r.threw THEN Done(jsonResponse(ErrorBody(failMessage), 500), log \o r.log)
  ELSE Done(jsonResponse(okBody, 200), log \o r.log)

handleGetInventory(fault) ==
  TryCatch(fetchInventoryFromSheets(fault), <<"handleGetInventory">>,
           [kind |-> "inventory"], "Failed to fetch inventory")

\* NotAdminOrManager with staff let through as well.
NotAdminManagerOrStaff(user) ==
  /\ ~JsEq(Get(user, K_role), JStr(R_admin))
  /\ ~JsEq(Get(user, K_role), JStr(R_manager))
  /\ ~JsEq(Get(user, K_role), JStr(R_staff))

\* user.role !== "admin" && user.role !== "manager"
NotAdminOrManager(user) ==
  /\ ~JsEq(Get(user, K_role), JStr(R_admin))
  /\ ~JsEq(Get(user, K_role), JStr(R_manager))

LogUpdateRole == <<"handleUpdateStock", "roleCheck">>
LogUpdateBody == <<"handleUpdateStock", "roleCheck", "request.json">>

\* handleUpdateStock, from the destructured body on.
UpdateWithBody(itemId, quantity, fault) ==
  IF Falsy(itemId) \/ quantity.t = "undef"
    THEN Done(jsonResponse(ErrorBody("itemId and quantity required"), 400), LogUpdateBody)
  ELSE TryCatch(updateStockInSheets(itemId, fault), LogUpdateBody,
                [kind |-> "success", message |-> "Stock updated"],
                "Failed to update stock")

\* handleUpdateStock reading and validating the body before the role check.
handleUpdateStockBodyFirst(req, user, fault) ==
  IF req.method # "POST"
    THEN Done(jsonResponse(ErrorBody("Method not allowed"), 405), LogUpdateRole)
  ELSE IF ~req.body.json
    THEN Done(Rejected("SyntaxError"), LogUpdateBody)
  ELSE IF Falsy(Get(req.body.val, K_itemId)) \/ Get(req.body.val, K_quantity).t = "undef"
    THEN Done(jsonResponse(ErrorBody("itemId and quantity required"), 400), LogUpdateBody)
  ELSE IF NotAdminOrManager(user)
    THEN Done(jsonResponse(ErrorBody("Forbidden: Insufficient permissions"), 403),
              LogUpdateRole)
  ELSE UpdateWithBody(Get(req.body.val, K_itemId), Get(req.body.val, K_quantity), fault)

handleUpdateStock(req, user, fault) ==
  IF NotAdminOrManager(user)
    THEN Done(jsonResponse(ErrorBody("Forbidden: Insufficient permissions"), 403),
              LogUpdateRole)
  ELSE IF req.method # "POST"
    THEN Done(jsonResponse(ErrorBody("Method not allowed"), 405), LogUpdateRole)
  ELSE IF ~req.body.json
    THEN Done(Rejected("SyntaxError"), LogUpdateBody)
  ELSE UpdateWithBody(Get(req.body.val, K_itemId), Get(req.body.val, K_quantity), fault)

\* handleAIReport, the Gemini call after the inventory was fetched.
ReportWithInventory(inv, fault) ==
  IF inv.threw
    THEN Done(jsonResponse(ErrorBody("Failed to generate report"), 500),
              <<"handleAIReport">> \o inv.log)
  ELSE TryCatch(generateGeminiReport(fault), <<"handleAIReport">> \o inv.log,
                [kind |-> "report"], "Failed to generate report")

handleAIReport(fault) == ReportWithInventory(fetchInventoryFromSheets(fault), fault)

LogTelegramRole == <<"handleTelegram", "roleCheck">>
LogTelegramBody == <<"handleTelegram", "roleCheck", "request.json">>

\* handleTelegram, from the destructured body on.
TelegramWithBody(message, fault) ==
  IF Falsy(message)
    THEN Done(jsonResponse(ErrorBody("Message required"), 400), LogTelegramBody)
  ELSE TryCatch(sendTelegramMessage(fault), LogTelegramBody,
                [kind |-> "success", message |-> "Sent to Telegram"],
                "Failed to send message")

handleTelegram(req, user, fault) ==
  IF NotAdminOrManager(user)
    THEN Done(jsonResponse(ErrorBody("Forbidden: Insufficient permissions"), 403),
              LogTelegramRole)
  ELSE IF req.method # "POST"
    THEN Done(jsonResponse(ErrorBody("Method not allowed"), 405), LogTelegramRole)
  ELSE IF ~req.body.json
    THEN Done(Rejected("SyntaxError"), LogTelegramBody)
  ELSE TelegramWithBody(Get(req.body.val, K_message), fault)

(***************************************************************************)
(* fetch: the router                                                       *)
(***************************************************************************)

\* The protected routes, after verifyAuth has accepted the token.
Route(req, user, fault) ==
  IF req.path = "/api/user" /\ req.method = "GET"
    THEN handleGetUser(user)
  ELSE IF req.path = "/api/inventory" /\ (req.method = "GET" \/ req.method = "POST")
    THEN handleGetInventory(fault)
  ELSE IF req.path = "/api/update-stock" /\ req.method = "POST"
    THEN handleUpdateStock(req, user, fault)
  ELSE IF req.path = "/api/ai-report" /\ req.method = "POST"
    THEN handleAIReport(fault)
  ELSE IF req.path = "/api/telegram" /\ req.method = "POST"
    THEN handleTelegram(req, user, fault)
  ELSE Done(jsonResponse(ErrorBody("Not found"), 404), <<>>)

\* What fetch did: the response, the log, the error verifyJWT threw inside
\* verifyAuth, the payload verifyAuth returned and the characters the
\* signature comparison looked at.
Outcome(resp, log, err, user, inspected) ==
  [resp |-> resp, log |-> log, err |-> err, user |-> user, inspected |-> inspected]

Public(r) == Outcome(r.resp, r.log, NoError, <<>>, 0)

Routed(authResult, r) ==
  Outcome(r.resp, authResult.log \o r.log, NoError, authResult.user, authResult.inspected)

\* Protected routing the request whatever verifyAuth returned.
ProtectedUngated(req, authResult, fault) ==
  Routed(authResult, Route(req, authResult.user, fault))

\* fetch, after verifyAuth.
Protected(req, authResult, fault) ==
  IF ~authResult.authenticated
    THEN Outcome(jsonResponse(ErrorBody("Unauthorized"), 401), authResult.log,
                 authResult.err, <<>>, authResult.inspected)
  ELSE Routed(authResult, Route(req, authResult.user, fault))

fetch(req, store, now1, now2, fault) ==
  IF req.method = "OPTIONS"
    THEN Outcome([status |-> 204, body |-> [kind |-> "cors"]], <<>>, NoError, <<>>, 0)
  ELSE IF req.path = "/api/auth/login"
    THEN Public(handleLogin(req, store, now1, now2))
  ELSE Protected(req, verifyAuth(req, now1), fault)

(***************************************************************************)
(* The state machine                                                       *)
(***************************************************************************)

VARIABLES
  now,       \* the wall clock, Math.floor(Date.now() / 1000)
  kv,        \* USERS_KV: key -> stored user record
  tokens,    \* the session token callers hold, with the claims signed in it:
             \* empty before the first login, then the latest login's token
  inflight,  \* the request being answered: Idle, or the finished exchange
  slots,     \* the requests the worker handles concurrently, each with its
             \* own locals and its position between two awaits
  attempts,  \* how many requests have arrived at the concurrent worker
  client     \* the browser: the three localStorage items and what the last
             \* handler that ran there did

vars == <<now, kv, tokens, inflight, slots, attempts, client>>

\* The clock's first reading, and how far the model lets it run.
T0 == 1700000000
MaxSeconds == 1
MaxDays == 1
Idle == [phase |-> "idle"]

Busy == inflight.phase = "done"

Pw1 == <<"P", "w", "1">>
Pw1WrongCase == <<"p", "w", "1">>
Pw1OneOff == <<"P", "w", "2">>

UserRecord(email, role) ==
  << <<K_email, JStr(email)>>, <<K_role, role>>,
     <<K_passwordHash, JStr(BcryptHash(Pw1))>> >>

E_admin == <<"a", "@", "x">>
E_adminUpper == <<"A", "@", "X">>
E_manager == <<"m", "@", "x">>
E_staff == <<"s", "@", "x">>
E_guest == <<"g", "\"", "@", "x">>
E_norole == <<"n", "@", "x">>
E_nohash == <<"h", "@", "x">>
E_badhash == <<"b", "@", "x">>
E_unknown == <<"z", "z", "@", "x">>

\* The records of the key-value store: the three documented roles, a record
\* with a role outside them, one with no role, one with no passwordHash and
\* one whose passwordHash is the password itself, not a bcrypt hash.
InitialKv ==
  LET Rec(e, r) == (UserKeyPrefix \o e) :> UserRecord(e, r)
  IN Rec(E_admin, JStr(R_admin)) @@ Rec(E_manager, JStr(R_manager))
     @@ Rec(E_staff, JStr(R_staff)) @@ Rec(E_guest, JStr(<<"g", "u", "e", "s", "t">>))
     @@ Rec(E_norole, Undefined)
     @@ ((UserKeyPrefix \o E_nohash) :>
           << <<K_email, JStr(E_nohash)>>, <<K_role, JStr(R_staff)>> >>)
     @@ ((UserKeyPrefix \o E_badhash) :>
           << <<K_email, JStr(E_badhash)>>, <<K_role, JStr(R_staff)>>,
              <<K_passwordHash, JStr(Pw1)>> >>)

\* The ids of the requests the worker handles at the same time.
Requests == {"r1", "r2"}

IdleSlot == [stage |-> "idle"]

\* localStorage.getItem of an item that is not stored.
Null == <<"#null">>

NoItems == [authToken |-> Null, userRole |-> Null, userEmail |-> Null]

Init ==
  /\ now = T0
  /\ kv = InitialKv
  /\ tokens = {}
  /\ inflight = Idle
  /\ slots = [r \in Requests |-> IdleSlot]
  /\ attempts = 0
  /\ client = [items |-> NoItems, last |-> "none"]

\* ---- what callers send ----

JsonBody(obj) == [json |-> TRUE, val |-> obj]
BadJsonBody == [json |-> FALSE, val |-> <<>>]
NoBody == JsonBody(<<>>)

NoHeader == [present |-> FALSE, val |-> <<>>]
Header(v) == [present |-> TRUE, val |-> v]

LoginBodies ==
  {JsonBody(<< <<K_email, JStr(e)>>, <<K_password, JStr(p)>> >>) :
     e \in {E_admin, E_adminUpper, E_manager, E_staff, E_guest, E_norole, E_nohash,
            E_badhash, E_unknown},
     p \in {Pw1, Pw1WrongCase, Pw1OneOff}}
  \cup {JsonBody(<< <<K_email, JStr(E_admin)>> >>),
        JsonBody(<< <<K_password, JStr(Pw1)>> >>),
        JsonBody(<< <<K_email, JNum(5)>>, <<K_password, JStr(Pw1)>> >>), BadJsonBody}

\* The key of a caller who does not know JWT_SECRET.
AttackerKey == <<"g", "u", "e", "s", "s", "1">>

\* Claims a caller would like to hold: role admin, expiry far away.
ForgedPayload ==
  base64UrlEncode(JSONstringify(
    << <<K_email, JStr(E_staff)>>, <<K_role, JStr(R_admin)>>, <<K_iat, JNum(T0)>>,
       <<K_exp, JNum(T0 + 1000 * TokenLifetime)>> >>))

ForgedHeader ==
  base64UrlEncode(JSONstringify(<< <<K_alg, JStr(<<"n", "o", "n", "e">>)>>, <<K_typ, JStr(<<"J", "W", "T">>)>> >>))

\* A signature segment with its first character changed to another
\* character of the alphabet.
FlipFirst(sig) == <<IF sig[1] = "A" THEN "B" ELSE "A">> \o Tail(sig)

\* A signature segment with its first character changed to ".".
DotFirst(sig) == <<".">> \o Tail(sig)

\* A token the worker issued to somebody else: staff, at the first clock reading.
OtherToken == generateJWT(UserRecord(E_staff, JStr(R_staff)), JWT_SECRET, T0, T0)

\* The tokens a caller can build without the secret from the segments h, p
\* and sig of an issued token: the signature segment replaced (one character
\* changed, one character turned into ".", emptied, taken from another
\* issued token, computed with the caller's own key), the payload or the
\* header segment replaced.
TamperedParts(h, p, sig) ==
  {Join3(h, p, FlipFirst(sig)), Join3(h, p, DotFirst(sig)), Join3(h, p, <<>>),
   Join3(h, p, createSignature(h \o <<".">> \o p, AttackerKey)),
   Join3(h, ForgedPayload, sig),
   Join3(h, ForgedPayload, createSignature(h \o <<".">> \o ForgedPayload, AttackerKey)),
   Join3(ForgedHeader, p, sig)}
  \cup (IF Join3(h, p, sig) = OtherToken THEN {}
        ELSE {Join3(h, p, Split(OtherToken)[3])})

TamperedOf(parts) == TamperedParts(parts[1], parts[2], parts[3])

Tampered(t) == TamperedOf(Split(t))

\* Strings that were never tokens.
JunkTokens ==
  {<<>>, <<"a", "b", "c">>, <<"a", ".", "b">>, <<"a", ".", "b", ".">>, <<".", ".">>,
   <<"a", ".", "b", ".", "c">>, <<"a", ".", "b", ".", "c", ".", "d">>}

Held == {t.token : t \in tokens}

Presentable == Held \cup JunkTokens \cup UNION {Tampered(t) : t \in Held}

AuthHeaders ==
  {NoHeader, Header(<<"B", "a", "s", "i", "c", " ", "a", "b", "c">>)}
  \cup {Header(BearerPrefix \o t) : t \in Presentable}
  \cup {Header(<<"b", "e", "a", "r", "e", "r", " ">> \o t) : t \in Held}

ProtectedPaths ==
  {"/api/user", "/api/inventory", "/api/update-stock", "/api/ai-report",
   "/api/telegram", "/api/other"}

Item(x) == JStr(x)

\* The bodies sent with a POST to each path.
BodiesFor(path) ==
  CASE path = "/api/update-stock" ->
         {JsonBody(<< <<K_itemId, Item(<<"A", "1">>)>>, <<K_quantity, JNum(0)>> >>),
          JsonBody(<< <<K_itemId, Item(<<"Z", "Z">>)>>, <<K_quantity, JNum(5)>> >>),
          JsonBody(<< <<K_quantity, JNum(5)>> >>),
          JsonBody(<< <<K_itemId, Item(<<"A", "1">>)>> >>),
          BadJsonBody}
    [] path = "/api/telegram" ->
         {JsonBody(<< <<K_message, JStr(<<"h", "i">>)>> >>), NoBody, BadJsonBody}
    [] OTHER -> {NoBody}

\* The faults the external services can show to a request of each route.
\* They are varied for the requests that bear a held token.
FaultsFor(path, method, auth) ==
  CASE auth \notin {Header(BearerPrefix \o t) : t \in Held} -> {"none"}
    [] path = "/api/inventory" -> {"none", "sign", "exchange1", "read"}
    [] path = "/api/update-stock" /\ method = "POST" ->
         {"none", "sign", "exchange1", "exchange2", "exchange3", "read", "write1",
          "write2"}
    [] path = "/api/ai-report" /\ method = "POST" ->
         {"none", "sign", "exchange1", "read", "gemini"}
    [] path = "/api/telegram" /\ method = "POST" -> {"none", "telegram"}
    [] OTHER -> {"none"}

Request(method, path, auth, body) ==
  [method |-> method, path |-> path, auth |-> auth, body |-> body]

\* The finished exchange: the request, what fetch made of it, the clock
\* reading it used, the fault the services showed and, for a login that
\* issued a token, the claims generateJWT wrote into it.
Exchange(req, r, at, fault, signed) ==
  [phase |-> "done", req |-> req, resp |-> r.resp, log |-> r.log, err |-> r.err,
   user |-> r.user, inspected |-> r.inspected, at |-> at, fault |-> fault,
   signed |-> signed]

\* ---- actions ----

\* A second passes.
TickSecond ==
  /\ inflight = Idle
  /\ (now - T0) % TokenLifetime < MaxSeconds
  /\ now' = now + 1
  /\ UNCHANGED <<kv, tokens, inflight, slots, attempts, client>>

\* A day passes.
TickDay ==
  /\ inflight = Idle
  /\ (now - T0) \div TokenLifetime < MaxDays
  /\ now' = now + TokenLifetime
  /\ UNCHANGED <<kv, tokens, inflight, slots, attempts, client>>

\* The exchange is recorded as the request in flight.
Answer(req, r, fault) == inflight' = Exchange(req, r, now, fault, <<>>)

\* fetch answers an OPTIONS request.
Preflight ==
  /\ inflight = Idle
  /\ \E path \in ProtectedPaths \cup {"/api/auth/login"} :
       Answer(Request("OPTIONS", path, NoHeader, NoBody),
              fetch(Request("OPTIONS", path, NoHeader, NoBody), kv, now, now, "none"),
              "none")
  /\ UNCHANGED <<now, kv, tokens, slots, attempts, client>>

\* The clock moves between the two reads of generateJWT only if it ran.
AnswerLogin(req, r, tick) ==
  /\ tick = 1 => r.log = LogLoginJwt
  /\ inflight' =
       Exchange(req, r, now, "none",
                IF r.resp.body.kind = "login"
                THEN Claims(JwtPayload(
                       kv[UserKeyPrefix \o toLowerCase(Get(req.body.val, K_email).v)],
                       now, now + tick))
                ELSE <<>>)
  /\ now' = now + tick

\* fetch answers a request to /api/auth/login.  generateJWT reads the clock
\* twice; the second reading is the first or one second later.
FetchLogin ==
  /\ inflight = Idle
  /\ \E method \in {"GET", "POST"}, body \in LoginBodies, tick \in {0, 1} :
       /\ method = "GET" => body = BadJsonBody
       /\ tick = 1 => (now - T0) % TokenLifetime < MaxSeconds
       /\ AnswerLogin(Request(method, "/api/auth/login", NoHeader, body),
                      fetch(Request(method, "/api/auth/login", NoHeader, body), kv, now,
                            now + tick, "none"),
                      tick)
  /\ UNCHANGED <<kv, tokens, slots, attempts, client>>

\* fetch answers a request to any other path.
FetchProtected ==
  /\ inflight = Idle
  /\ \E method \in {"GET", "POST"}, path \in ProtectedPaths, auth \in AuthHeaders :
       \E body \in (IF method = "POST" THEN BodiesFor(path) ELSE {NoBody}),
          fault \in FaultsFor(path, method, auth) :
         Answer(Request(method, path, auth, body),
                fetch(Request(method, path, auth, body), kv, now, now, fault), fault)
  /\ UNCHANGED <<now, kv, tokens, slots, attempts, client>>

\* ---- getGoogleSheetsToken, called on its own ----

\* env.GOOGLE_SERVICE_ACCOUNT_KEY as it is stored, line feeds written as a
\* backslash and n: the key of the service account, a text whose body is
\* not base64, and base64 that is no PKCS#8 key.
ServiceKey ==
  <<"-", "-", "-", "-", "-", "B", "E", "G", "I", "N", " ", "P", "R", "I", "V", "A",
    "T", "E", " ", "K", "E", "Y", "-", "-", "-", "-", "-", "\\", "n", "M", "G", "t",
    "l", "e", "Q", "=", "=", "\\", "n", "-", "-", "-", "-", "-", "E", "N", "D", " ",
    "P", "R", "I", "V", "A", "T", "E", " ", "K", "E", "Y", "-", "-", "-", "-", "-",
    "\\", "n">>

KeyNotBase64 ==
  <<"-", "-", "-", "-", "-", "B", "E", "G", "I", "N", " ", "P", "R", "I", "V", "A",
    "T", "E", " ", "K", "E", "Y", "-", "-", "-", "-", "-", "\\", "n", "!", "!", "!",
    "!", "\\", "n", "-", "-", "-", "-", "-", "E", "N", "D", " ", "P", "R", "I", "V",
    "A", "T", "E", " ", "K", "E", "Y", "-", "-", "-", "-", "-", "\\", "n">>

KeyNotPkcs8 ==
  <<"-", "-", "-", "-", "-", "B", "E", "G", "I", "N", " ", "P", "R", "I", "V", "A",
    "T", "E", " ", "K", "E", "Y", "-", "-", "-", "-", "-", "\\", "n", "a", "n", "V",
    "u", "a", "w", "=", "=", "\\", "n", "-", "-", "-", "-", "-", "E", "N", "D", " ",
    "P", "R", "I", "V", "A", "T", "E", " ", "K", "E", "Y", "-", "-", "-", "-", "-",
    "\\", "n">>

ServiceKeys == {ServiceKey, KeyNotBase64, KeyNotPkcs8}

ServiceAccountEmail == <<"s", "a", "@", "x">>

\* The DER bytes of the service account's key; the token endpoint holds the
\* public half.
ServiceDer == <<"0", "k", "e", "y">>

\* The token endpoint answers 200 only to an assertion that carries the
\* service account's signature over its first two segments.
EndpointVerifies(assertion) ==
  /\ Len(Split(assertion)) = 3
  /\ Split(assertion)[3] =
       base64UrlEncode(RsaSign(ServiceDer, Split(assertion)[1] \o <<".">> \o Split(assertion)[2]))

\* The statuses the token endpoint answers with.
ExchangeStatuses == {200, 400, 503}

\* The finished call: which module's function ran, with which key, the
\* assertion it built, whether it was sent and what the endpoint answered,
\* and what the function returned or threw.
TokenCall(module, key, status, jwt, result) ==
  [phase |-> "token", module |-> module, key |-> key, at |-> now,
   assertion |-> jwt, exchanged |-> ~jwt.threw, status |-> status, result |-> result]

\* The endpoint is asked only when there is an assertion.
AnswerToken(module, key, status, jwt) ==
  /\ jwt.threw => status = 400
  /\ status = 200 => EndpointVerifies(jwt.val)
  /\ inflight' =
       TokenCall(module, key, status, jwt,
                 IF module = "worker" THEN TokenFromExchange(jwt, TokenResponse(status))
                 ELSE Sheets_TokenFromExchange(jwt, TokenResponse(status)))

\* getGoogleSheetsToken runs, in the worker or in the Sheets utility module.
GetSheetsToken ==
  /\ inflight = Idle
  /\ \E module \in {"worker", "sheets"}, key \in ServiceKeys, status \in ExchangeStatuses :
       AnswerToken(module, key, status,
                   IF module = "worker"
                   THEN createServiceAccountJWT(
                          AssertionClaims(ServiceAccountEmail, now), UnescapeNewlines(key))
                   ELSE Sheets_createServiceAccountJWT(
                          AssertionClaims(ServiceAccountEmail, now), UnescapeNewlines(key)))
  /\ UNCHANGED <<now, kv, tokens, slots, attempts, client>>

\* The caller receives the response, or the call of getGoogleSheetsToken
\* its result; a login response hands the caller the token.
Return ==
  /\ inflight # Idle
  /\ inflight' = Idle
  /\ tokens' =
       IF Busy /\ inflight.resp.body.kind = "login"
       THEN {[token |-> inflight.resp.body.token, claims |-> inflight.signed]}
       ELSE tokens
  /\ UNCHANGED <<now, kv, slots, attempts, client>>

Next ==
  \/ TickSecond
  \/ TickDay
  \/ Preflight
  \/ FetchLogin
  \/ FetchProtected
  \/ GetSheetsToken
  \/ Return

Spec == Init /\ [][Next]_vars

(***************************************************************************)
(* The worker handling several requests at once                            *)
(***************************************************************************)

\* How many requests the model lets arrive.
MaxAttempts == 3

AdminKey == UserKeyPrefix \o E_admin

\* The logins that arrive: the right password, a wrong one and one without
\* a password.
ConcurrentLogins ==
  {Request("POST", "/api/auth/login", NoHeader,
           JsonBody(<< <<K_email, JStr(c[1])>>, <<K_password, JStr(c[2])>> >>)) :
     c \in {<<E_admin, Pw1>>, <<E_admin, Pw1OneOff>>}}
  \cup {Request("POST", "/api/auth/login", NoHeader,
                JsonBody(<< <<K_email, JStr(E_admin)>> >>))}

\* The requests a holder of the token t sends.
BearerRequests(t) ==
  {Request("GET", "/api/user", Header(BearerPrefix \o t.token), NoBody),
   Request("POST", "/api/update-stock", Header(BearerPrefix \o t.token),
           JsonBody(<< <<K_itemId, Item(<<"A", "1">>)>>, <<K_quantity, JNum(0)>> >>))}

NoBearer == [token |-> <<>>, claims |-> <<>>]

\* The requests that can arrive, each with the token record it bears.
Arrivals ==
  {<<req, NoBearer>> : req \in ConcurrentLogins}
  \cup UNION {{<<req, t>> : req \in BearerRequests(t)} : t \in tokens}

\* The locals of a request that has just arrived: nothing authenticated,
\* nothing looked up, no response.  ordinal numbers a login among the
\* requests that arrived.
Received(req, bearer, ordinal) ==
  [stage |-> "received", req |-> req, bearer |-> bearer, ordinal |-> ordinal,
   auth |-> [authenticated |-> FALSE, user |-> <<>>, err |-> NoError, log |-> <<>>,
             inspected |-> 0],
   userData |-> [found |-> FALSE, val |-> <<>>],
   store |-> InitialKv, at |-> T0,
   resp |-> [status |-> 0, body |-> [kind |-> "pending"]], log |-> <<>>, signed |-> <<>>]

\* The locals of a request whose handler has returned out: store and at are
\* the store contents and the clock reading it met.
Finished(slot, out, store, at, signed) ==
  [slot EXCEPT !.stage = "done", !.resp = out.resp, !.log = out.log, !.store = store,
               !.at = at, !.signed = signed]

\* HandlerAuth taking the result of verifyAuth from a variable of the
\* module that the request r1 wrote.
HandlerAuthShared(own, all, store) ==
  IF all["r1"].stage = "idle" THEN own ELSE all["r1"].auth

\* HandlerAuth reading the user's record from the key-value store again.
HandlerAuthFromStore(own, all, store) ==
  IF ~own.authenticated THEN own
  ELSE [own EXCEPT !.user = KvGet(store, UserKeyPrefix \o Get(own.user, K_email).v).val]

\* The result of verifyAuth the handlers of a request work with: const
\* { user } = authResult, the local of this invocation of fetch; the locals
\* of the other requests and the store are not looked at.
HandlerAuth(own, all, store) == own

\* handleLogin returns before it reads the key-value store.
LoginEarly(req) ==
  \/ req.method # "POST"
  \/ ~req.body.json
  \/ Falsy(Get(req.body.val, K_email))
  \/ Falsy(Get(req.body.val, K_password))
  \/ Get(req.body.val, K_email).t # "str"

\* A request arrives and fetch starts on it.
Arrive(r) ==
  /\ slots[r].stage = "idle"
  /\ attempts < MaxAttempts
  /\ \E a \in Arrivals :
       slots' = [slots EXCEPT ![r] =
                  Received(a[1], a[2],
                           IF a[1].path = "/api/auth/login" THEN attempts + 1 ELSE 0)]
  /\ attempts' = attempts + 1
  /\ UNCHANGED <<now, kv, tokens, inflight, client>>

\* fetch, up to the return of `await verifyAuth(request, env)`.
Authenticate(r) ==
  /\ slots[r].stage = "received"
  /\ slots[r].req.path # "/api/auth/login"
  /\ slots' = [slots EXCEPT ![r] =
                 [slots[r] EXCEPT !.stage = "authenticated",
                                  !.auth = verifyAuth(slots[r].req, now),
                                  !.store = kv,
                                  !.at = now]]
  /\ UNCHANGED <<now, kv, tokens, inflight, attempts, client>>

\* fetch, from the test of authResult.authenticated to the response.
Dispatch(r) ==
  /\ slots[r].stage = "authenticated"
  /\ slots' = [slots EXCEPT ![r] =
                 Finished(slots[r],
                          Protected(slots[r].req, HandlerAuth(slots[r].auth, slots, kv),
                                    "none"),
                          slots[r].store, slots[r].at, <<>>)]
  /\ UNCHANGED <<now, kv, tokens, inflight, attempts, client>>

\* handleLogin, up to the return of `await env.USERS_KV.get(userKey, 'json')`.
Lookup(r) ==
  /\ slots[r].stage = "received"
  /\ slots[r].req.path = "/api/auth/login"
  /\ slots' = [slots EXCEPT ![r] =
                 IF LoginEarly(slots[r].req)
                 THEN Finished(slots[r], handleLogin(slots[r].req, kv, now, now),
                               slots[r].store, now, <<>>)
                 ELSE [slots[r] EXCEPT
                         !.stage = "looked-up",
                         !.userData =
                           KvGet(kv, UserKeyPrefix
                                       \o toLowerCase(Get(slots[r].req.body.val, K_email).v)),
                         !.store = kv]]
  /\ UNCHANGED <<now, kv, tokens, inflight, attempts, client>>

\* The claims generateJWT signs when the login out issued a token.
SignedBy(out, userData, at) ==
  IF out.resp.body.kind = "login" THEN Claims(JwtPayload(userData.val, at, at)) ELSE <<>>

\* handleLogin, from the test of userData to the response.
Issue(r) ==
  /\ slots[r].stage = "looked-up"
  /\ slots' = [slots EXCEPT ![r] =
                 Finished(slots[r],
                          LoginLookup(slots[r].userData,
                                      Get(slots[r].req.body.val, K_password), now, now),
                          slots[r].store, now,
                          SignedBy(LoginLookup(slots[r].userData,
                                               Get(slots[r].req.body.val, K_password),
                                               now, now),
                                   slots[r].userData, now))]
  /\ UNCHANGED <<now, kv, tokens, inflight, attempts, client>>

\* The caller receives the response; a login response hands it the token.
Deliver(r) ==
  /\ slots[r].stage = "done"
  /\ slots' = [slots EXCEPT ![r] = IdleSlot]
  /\ tokens' =
       IF slots[r].resp.body.kind = "login"
       THEN {[token |-> slots[r].resp.body.token, claims |-> slots[r].signed]}
       ELSE tokens
  /\ UNCHANGED <<now, kv, inflight, attempts, client>>

\* The operator of the store gives the admin's record the role staff.
ChangeRole ==
  /\ AdminKey \in DOMAIN kv
  /\ Get(kv[AdminKey], K_role) = JStr(R_admin)
  /\ kv' = [kv EXCEPT ![AdminKey] = UserRecord(E_admin, JStr(R_staff))]
  /\ UNCHANGED <<now, tokens, inflight, slots, attempts, client>>

\* The operator of the store deletes the admin's record.
DeleteUser ==
  /\ AdminKey \in DOMAIN kv
  /\ kv' = [k \in DOMAIN kv \ {AdminKey} |-> kv[k]]
  /\ UNCHANGED <<now, tokens, inflight, slots, attempts, client>>

\* A day and a second pass, whatever the requests in progress.
ClockMoves ==
  /\ (now - T0) \div TokenLifetime < MaxDays
  /\ now' = now + TokenLifetime + 1
  /\ UNCHANGED <<kv, tokens, inflight, slots, attempts, client>>

NextConcurrent ==
  \/ \E r \in Requests : Arrive(r)
  \/ \E r \in Requests : Authenticate(r)
  \/ \E r \in Requests : Dispatch(r)
  \/ \E r \in Requests : Lookup(r)
  \/ \E r \in Requests : Issue(r)
  \/ \E r \in Requests : Deliver(r)
  \/ ChangeRole
  \/ DeleteUser
  \/ ClockMoves

SpecConcurrent == Init /\ [][NextConcurrent]_vars

(***************************************************************************)
(* The browser client: the login page and the API client                   *)
(***************************************************************************)

\* String(value), as localStorage.setItem stores a value.
ToItem(v) ==
  IF v.t = "undef" THEN <<"u", "n", "d", "e", "f", "i", "n", "e", "d">>
  ELSE IF v.t = "num" THEN NumToString(v.v)
  ELSE v.v

\* What request.json() of the worker makes of the body text the client sent.
BodyOf(parsed) == [json |-> parsed.ok, val |-> parsed.val]

\* fetch(`${API_BASE_URL}/api/auth/login`, {method: 'POST', body:
\* JSON.stringify({ email, password })})
LoginRequest(email, password) ==
  Request("POST", "/api/auth/login", NoHeader,
          BodyOf(JSONparse(JSONstringify(<< <<K_email, JStr(email)>>,
                                            <<K_password, JStr(password)>> >>))))

\* What the user types into the login form.
FormInputs ==
  {<<e, pw>> : e \in {E_admin, E_staff, E_norole, E_unknown}, pw \in {Pw1, Pw1OneOff}}
  \cup {<< <<>>, Pw1 >>}

\* response.ok
Ok2xx(resp) == resp.status >= 200 /\ resp.status <= 299

\* The login handler got a response it stores the token of: response.json()
\* did not throw, the status is ok and data.token is truthy.
LoginStored(resp) ==
  /\ resp.body.kind = "login"
  /\ Ok2xx(resp)
  /\ resp.body.token # <<>>

\* The submit handler, after the response arrived: the three setItem calls.
StoreLogin(items, resp) ==
  IF LoginStored(resp)
  THEN [authToken |-> resp.body.token, userRole |-> ToItem(resp.body.role),
        userEmail |-> ToItem(resp.body.email)]
  ELSE items

\* logout removing the token and leaving the role and the email.
AfterLogoutTokenOnly(items) == [items EXCEPT !.authToken = Null]

\* logout: the three removeItem calls.
AfterLogout(items) ==
  [items EXCEPT !.authToken = Null, !.userRole = Null, !.userEmail = Null]

\* !token for what localStorage.getItem('authToken') returned.
NoToken(items) == items.authToken = Null \/ items.authToken = <<>>

\* The calls of the API client: getCurrentUser and updateStock.
ApiCalls ==
  {[method |-> "GET", path |-> "/api/user", body |-> NoBody],
   [method |-> "POST", path |-> "/api/update-stock",
    body |-> BodyOf(JSONparse(JSONstringify(<< <<K_itemId, Item(<<"A", "1">>)>>,
                                              <<K_quantity, JNum(5)>> >>)))]}

\* The login form is submitted: the request goes to the worker.
SubmitLogin ==
  /\ inflight = Idle
  /\ \E c \in FormInputs :
       Answer(LoginRequest(c[1], c[2]),
              fetch(LoginRequest(c[1], c[2]), kv, now, now, "none"), "none")
  /\ client' = [client EXCEPT !.last = "sent"]
  /\ UNCHANGED <<now, kv, tokens, slots, attempts>>

\* The submit handler goes on with the response of the login.
LoginAnswered ==
  /\ Busy
  /\ inflight.req.path = "/api/auth/login"
  /\ client' = [items |-> StoreLogin(client.items, inflight.resp),
                last |-> IF Ok2xx(inflight.resp) THEN "redirected" ELSE "login-failed"]
  /\ inflight' = Idle
  /\ UNCHANGED <<now, kv, tokens, slots, attempts>>

\* logout, at any moment, a login or an API request in progress or not.
Logout ==
  /\ client' = [items |-> AfterLogout(client.items), last |-> "logged-out"]
  /\ UNCHANGED <<now, kv, tokens, inflight, slots, attempts>>

\* apiRequest, up to the fetch: it throws without a token.
ApiRequest ==
  /\ inflight = Idle
  /\ \E call \in ApiCalls :
       IF NoToken(client.items)
       THEN /\ client' = [client EXCEPT !.last = "not-authenticated"]
            /\ inflight' = inflight
       ELSE /\ client' = [client EXCEPT !.last = "sent"]
            /\ Answer(Request(call.method, call.path,
                              Header(BearerPrefix \o client.items.authToken), call.body),
                      fetch(Request(call.method, call.path,
                                    Header(BearerPrefix \o client.items.authToken),
                                    call.body),
                            kv, now, now, "none"),
                      "none")
  /\ UNCHANGED <<now, kv, tokens, slots, attempts>>

\* apiRequest, after the fetch: 401 clears the storage.
ApiAnswered ==
  /\ Busy
  /\ inflight.req.path # "/api/auth/login"
  /\ client' =
       IF inflight.resp.status = 401 THEN [items |-> NoItems, last |-> "session-expired"]
       ELSE IF inflight.resp.status = 403 THEN [client EXCEPT !.last = "access-denied"]
       ELSE [client EXCEPT !.last = "returned"]
  /\ inflight' = Idle
  /\ UNCHANGED <<now, kv, tokens, slots, attempts>>

NextClient ==
  \/ SubmitLogin
  \/ LoginAnswered
  \/ Logout
  \/ ApiRequest
  \/ ApiAnswered
  \/ TickSecond
  \/ TickDay

SpecClient == Init /\ [][NextClient]_vars

(***************************************************************************)
(* Vocabulary of the properties                                            *)
(***************************************************************************)

\* The exchange in flight is a request to a protected path (not a preflight).
ProtectedExchange ==
  /\ Busy
  /\ inflight.req.method # "OPTIONS"
  /\ inflight.req.path # "/api/auth/login"

\* The request in flight carries "Authorization: Bearer <token>".
BearsToken ==
  /\ ProtectedExchange
  /\ inflight.req.auth.present
  /\ Len(inflight.req.auth.val) >= 7
  /\ SubSeq(inflight.req.auth.val, 1, 7) = BearerPrefix

\* The token of the request in flight.
PresentedToken == SubSeq(inflight.req.auth.val, 8, Len(inflight.req.auth.val))

\* The request in flight carries exactly the issued token t.
Presents(t) == BearsToken /\ PresentedToken = t.token

NumDots(s) == Cardinality({i \in 1..Len(s) : s[i] = "."})

\* The text of s up to and including its second ".".
HeaderAndPayload(s) ==
  SubSeq(s, 1, CHOOSE i \in 1..Len(s) :
                 s[i] = "." /\ Cardinality({j \in 1..(i - 1) : s[j] = "."}) = 1)

\* The request in flight carries the header and payload segments of the
\* issued token t followed by something other than t's signature segment.
PresentsOtherSignature(t) ==
  /\ BearsToken
  /\ PresentedToken # t.token
  /\ Len(PresentedToken) >= Len(HeaderAndPayload(t.token))
  /\ SubSeq(PresentedToken, 1, Len(HeaderAndPayload(t.token))) = HeaderAndPayload(t.token)

\* What replaced the signature segment.
ReplacedSignature(t) ==
  SubSeq(PresentedToken, Len(HeaderAndPayload(t.token)) + 1, Len(PresentedToken))

\* The response every failed authentication gets.
Unauthorized == [status |-> 401, body |-> [kind |-> "error", error |-> "Unauthorized"]]

\* Nothing ran but the authentication itself.
OnlyAuthRan == inflight.log \in {<<"verifyAuth">>, <<"verifyAuth", "verifyJWT">>}

\* verifyAuth accepted the token of the request in flight.
Accepted == ProtectedExchange /\ inflight.resp # Unauthorized

NumberOf(claims, key) ==
  (CHOOSE i \in 1..Len(claims) : claims[i][1] = key) \* the member's position

ExpOf(t) == t.claims[NumberOf(t.claims, K_exp)][2].v
IatOf(t) == t.claims[NumberOf(t.claims, K_iat)][2].v

LogHas(e) == \E i \in 1..Len(inflight.log) : inflight.log[i] = e

ExternalCalls ==
  {"USERS_KV.get", "sign", "exchange", "sheets.get", "sheets.put.quantity",
   "sheets.put.timestamp", "gemini", "telegram.send"}

NoExternalCall == \A i \in 1..Len(inflight.log) : inflight.log[i] \notin ExternalCalls

\* The role claim verifyAuth handed to the handlers.
RoleOfUser == Get(inflight.user, K_role)

RoleIs(r) == JsEq(RoleOfUser, JStr(r))

(***************************************************************************)
(* The claims                                                              *)
(***************************************************************************)

\* C1: a token generateJWT issued, presented unchanged while its exp has not
\* passed, is accepted, and the payload verifyJWT returns has the members
\* and values that were signed.
C1_RoundTrip ==
  \A t \in tokens :
    (Presents(t) /\ ExpOf(t) >= inflight.at)
      => /\ inflight.err = NoError
         /\ Accepted
         /\ ObjEq(inflight.user, t.claims)

\* C1 witness: the token of the account whose email holds a quotation mark,
\* presented in the second it was issued, is accepted.
C1_Witness ==
  \E t \in tokens :
    /\ Presents(t)
    /\ IatOf(t) = inflight.at
    /\ Accepted
    /\ JsEq(Get(inflight.user, K_email), JStr(E_guest))

\* C2 (as stated): an issued token whose signature segment is replaced by
\* any different value is rejected with the error "Invalid signature" and
\* no payload is returned.
C2_AnyOtherSignature ==
  \A t \in tokens :
    PresentsOtherSignature(t)
      => /\ inflight.err = ErrInvalidSignature
         /\ inflight.user = <<>>
         /\ inflight.resp = Unauthorized

\* C2 (amended): an issued token whose signature segment is replaced by a
\* different value is rejected and no payload is returned; the error is
\* "Invalid signature" when the new value holds no ".", and "Invalid token"
\* when it holds one, because the token then has more than three parts.
C2_OtherSignature ==
  \A t \in tokens :
    PresentsOtherSignature(t)
      => /\ inflight.user = <<>>
         /\ inflight.resp = Unauthorized
         /\ NumDots(ReplacedSignature(t)) = 0 => inflight.err = ErrInvalidSignature
         /\ NumDots(ReplacedSignature(t)) > 0 => inflight.err = ErrInvalidToken

\* C2 witness: a signature segment with one character changed to another
\* letter was rejected with "Invalid signature", and one emptied as well.
C2_Witness ==
  \E t \in tokens :
    /\ PresentsOtherSignature(t)
    /\ Len(ReplacedSignature(t)) > 0
    /\ NumDots(ReplacedSignature(t)) = 0
    /\ inflight.err = ErrInvalidSignature

\* C3: a request is authenticated only with a token exactly as generateJWT
\* issued it, and the payload handed on is the one that was signed; a token
\* whose header or payload segment was changed under the original signature
\* is rejected.
C3_NoForgery ==
  /\ (BearsToken /\ PresentedToken \notin Held)
       => (inflight.resp = Unauthorized /\ inflight.user = <<>>)
  /\ Accepted
       => \E t \in tokens : Presents(t) /\ ObjEq(inflight.user, t.claims)

\* C3 witness: the payload segment of an issued token was replaced by claims
\* naming the role admin, the signature kept, and the request was rejected.
C3_Witness ==
  \E t \in tokens :
    /\ BearsToken
    /\ PresentedToken = Join3(Split(t.token)[1], ForgedPayload, Split(t.token)[3])
    /\ inflight.resp = Unauthorized
    /\ inflight.err = ErrInvalidSignature

\* C4 (as stated): a correctly signed token is rejected as expired exactly
\* when its exp is before the current time, and a token issued at time T
\* (its iat) is accepted at every time up to T + 86400 and rejected later.
C4_Lifetime ==
  \A t \in tokens :
    Presents(t)
      => /\ (inflight.err = ErrTokenExpired) <=> (ExpOf(t) < inflight.at)
         /\ Accepted <=> (inflight.at <= IatOf(t) + TokenLifetime)

\* C5 (as stated): a token that does not split into exactly three non-empty
\* parts is rejected with the error "Invalid token".
C5_EmptyPartsMalformed ==
  (/\ BearsToken
   /\ \/ NumDots(PresentedToken) # 2
      \/ \E i \in 1..3 : Split(PresentedToken)[i] = <<>>)
    => inflight.err = ErrInvalidToken

\* The four operations of the permissions table.
Operations ==
  {<<"GET", "/api/inventory">>, <<"POST", "/api/update-stock">>,
   <<"POST", "/api/ai-report">>, <<"POST", "/api/telegram">>}

\* The table: who may do what.
Permitted(op) ==
  \/ RoleIs(R_admin)
  \/ RoleIs(R_manager)
  \/ RoleIs(R_staff) /\ op[2] \in {"/api/inventory", "/api/ai-report"}

\* C6 (as stated): on the four operations an authenticated request is let
\* through exactly when the table permits its role; a role outside admin,
\* manager and staff, or no role, is denied everywhere.
C6_Policy ==
  (Accepted /\ <<inflight.req.method, inflight.req.path>> \in Operations)
    => /\ Permitted(<<inflight.req.method, inflight.req.path>>)
            <=> inflight.resp.status # 403
       /\ ~Permitted(<<inflight.req.method, inflight.req.path>>) => NoExternalCall

\* The API endpoints the README lists.
ListedEndpoints ==
  {<<"POST", "/api/auth/login">>, <<"GET", "/api/user">>, <<"GET", "/api/inventory">>,
   <<"POST", "/api/update-stock">>, <<"POST", "/api/ai-report">>,
   <<"POST", "/api/telegram">>}

\* C7 (as stated): a request whose path and method are not a listed
\* endpoint is refused, and no call to Sheets, Gemini, Telegram or the
\* key-value store is made for it.
C7_DenyByDefault ==
  (/\ Busy
   /\ inflight.req.method # "OPTIONS"
   /\ <<inflight.req.method, inflight.req.path>> \notin ListedEndpoints)
    => /\ inflight.resp.status \in {401, 403, 404, 405}
       /\ NoExternalCall

\* C8: a request to a path other than the login path with no Authorization
\* header, a header that is not "Bearer <token>", a token that was not
\* issued or an issued token whose exp has passed is answered 401, and
\* nothing but the authentication ran: no handler, no body parsing, no
\* external call.
C8_UnauthenticatedFirst ==
  (/\ ProtectedExchange
   /\ \/ ~BearsToken
      \/ PresentedToken \notin Held
      \/ \E t \in tokens : Presents(t) /\ ExpOf(t) < inflight.at)
    => /\ inflight.resp = Unauthorized
       /\ OnlyAuthRan
       /\ inflight.user = <<>>

\* C8 witness: a POST to /api/update-stock with a complete body and a token
\* signed with a key of the caller's own was answered 401.
C8_Witness ==
  /\ BearsToken
  /\ PresentedToken \notin Held
  /\ NumDots(PresentedToken) = 2
  /\ inflight.req.path = "/api/update-stock"
  /\ inflight.req.method = "POST"
  /\ inflight.req.body.json
  /\ Len(inflight.req.body.val) = 2
  /\ inflight.resp = Unauthorized
  /\ inflight.log = <<"verifyAuth", "verifyJWT">>

\* C9: verifyJWT throws three different errors for a token with other than
\* three parts, for an issued token with another signature segment and for
\* an issued token whose exp has passed, and the response is the same 401
\* with the same body for all of them.
C9_UniformFailure ==
  /\ (BearsToken /\ NumDots(PresentedToken) # 2) => inflight.err = ErrInvalidToken
  /\ \A t \in tokens :
       /\ (PresentsOtherSignature(t) /\ NumDots(PresentedToken) = 2)
            => inflight.err = ErrInvalidSignature
       /\ (Presents(t) /\ ExpOf(t) < inflight.at) => inflight.err = ErrTokenExpired
  /\ (Busy /\ inflight.err # NoError) => inflight.resp = Unauthorized
  /\ ErrInvalidToken # ErrInvalidSignature
  /\ ErrInvalidSignature # ErrTokenExpired
  /\ ErrInvalidToken # ErrTokenExpired

\* C9 witness: an issued token presented one second after its exp was
\* answered with the common 401.
C9_Witness ==
  \E t \in tokens :
    /\ Presents(t)
    /\ ExpOf(t) = inflight.at - 1
    /\ inflight.err = ErrTokenExpired
    /\ inflight.resp = Unauthorized

\* C10: an authenticated POST with the role staff to update-stock or to
\* telegram is answered 403, which is not the 401 of a failed
\* authentication; with any method, neither a Sheets write nor a Telegram
\* send nor any other external call is made and the body is not read.
C10_StaffForbidden ==
  (/\ Accepted
   /\ RoleIs(R_staff)
   /\ inflight.req.path \in {"/api/update-stock", "/api/telegram"})
    => /\ inflight.req.method = "POST" => inflight.resp.status = 403
       /\ inflight.resp.status \in {403, 404}
       /\ inflight.resp.status # Unauthorized.status
       /\ NoExternalCall
       /\ ~LogHas("request.json")

\* C10 witness: staff posted a message to /api/telegram and got 403.
C10_Witness ==
  /\ Accepted
  /\ RoleIs(R_staff)
  /\ inflight.req.path = "/api/telegram"
  /\ inflight.req.method = "POST"
  /\ inflight.req.body.json
  /\ Len(inflight.req.body.val) = 1
  /\ inflight.resp.status = 403

(***************************************************************************)
(* Vocabulary of the login properties                                      *)
(***************************************************************************)

\* The exchange in flight is a POST to the login path with a JSON body.
LoginExchange ==
  /\ Busy
  /\ inflight.req.path = "/api/auth/login"
  /\ inflight.req.method = "POST"
  /\ inflight.req.body.json

Submitted(key) == Get(inflight.req.body.val, key)

SubmittedBoth ==
  /\ LoginExchange
  /\ Submitted(K_email).t = "str" /\ Submitted(K_email).v # <<>>
  /\ Submitted(K_password).t = "str" /\ Submitted(K_password).v # <<>>

\* The key handleLogin reads for the submitted email.
SubmittedKey == UserKeyPrefix \o toLowerCase(Submitted(K_email).v)

RecordExists == SubmittedBoth /\ SubmittedKey \in DOMAIN kv

StoredHash == Get(kv[SubmittedKey], K_passwordHash)

\* The response carries a token.
IssuedToken == inflight.resp.status = 200 /\ inflight.resp.body.kind = "login"

InvalidCredentials ==
  [status |-> 401, body |-> [kind |-> "error", error |-> "Invalid credentials"]]

BadRequest ==
  [status |-> 400, body |-> [kind |-> "error", error |-> "Email and password required"]]

MalformedRecord ==
  [status |-> 500, body |-> [kind |-> "error", error |-> "Invalid user data structure"]]

\* C11: a login returns a token only if the stored passwordHash of the
\* looked-up record is the hash of the submitted password; a submitted
\* password other than the one the stored hash was made from (another
\* letter case, one character changed) gets the invalid-credentials
\* response and no token.
C11_PasswordGate ==
  LoginExchange =>
    /\ IssuedToken =>
         /\ RecordExists
         /\ JsEq(StoredHash, JStr(BcryptHash(Submitted(K_password).v)))
    /\ \A made \in {Pw1, Pw1WrongCase, Pw1OneOff} :
         (/\ RecordExists
          /\ JsEq(StoredHash, JStr(BcryptHash(made)))
          /\ Submitted(K_password).v # made)
           => (inflight.resp = InvalidCredentials /\ ~IssuedToken)

\* C11 witness: the admin's address with the password in the wrong letter
\* case got the invalid-credentials response.
C11_Witness ==
  /\ RecordExists
  /\ Submitted(K_email).v = E_admin
  /\ Submitted(K_password).v = Pw1WrongCase
  /\ JsEq(StoredHash, JStr(BcryptHash(Pw1)))
  /\ inflight.resp = InvalidCredentials

\* A member of the submitted body is missing or the empty string.
Missing(key) ==
  \/ Submitted(key).t = "undef"
  \/ Submitted(key).t = "str" /\ Submitted(key).v = <<>>

\* The stored hash was made from a password other than the submitted one.
WrongPassword ==
  /\ RecordExists
  /\ \E made \in {Pw1, Pw1WrongCase, Pw1OneOff} :
       /\ JsEq(StoredHash, JStr(BcryptHash(made)))
       /\ Submitted(K_password).v # made

\* C12: a login for an email with no record and a login for an existing
\* record with a wrong password get the same response, status and body.
C12_NoEnumeration ==
  /\ (SubmittedBoth /\ SubmittedKey \notin DOMAIN kv) => inflight.resp = InvalidCredentials
  /\ WrongPassword => inflight.resp = InvalidCredentials

\* C12 witness: an address with no record got the invalid-credentials
\* response.
C12_Witness ==
  /\ SubmittedBoth
  /\ Submitted(K_email).v = E_unknown
  /\ SubmittedKey \notin DOMAIN kv
  /\ inflight.resp = InvalidCredentials

StoredHashUntagged ==
  /\ RecordExists
  /\ StoredHash.t = "str"
  /\ \/ Len(StoredHash.v) < Len(BcryptPrefix)
     \/ SubSeq(StoredHash.v, 1, Len(BcryptPrefix)) # BcryptPrefix

\* C14 (as stated): a login for a record whose passwordHash is present but
\* is no bcrypt hash is answered with a server error, not with the
\* invalid-credentials response, whatever the password.
C14_BadHashIsServerError ==
  StoredHashUntagged
    => (inflight.resp.status = 500 /\ inflight.resp # InvalidCredentials)

Roles == {R_admin, R_manager, R_staff}

\* The looked-up record has an email, a role of the three and a passwordHash.
RecordComplete ==
  /\ Get(kv[SubmittedKey], K_email).t = "str"
  /\ Get(kv[SubmittedKey], K_role).t = "str"
  /\ Get(kv[SubmittedKey], K_role).v \in Roles
  /\ StoredHash.t = "str"

\* The claims inside the token of the response in flight.
TokenClaims == JSONparse(base64UrlDecode(Split(inflight.resp.body.token)[2])).val

\* C15 (as stated): a login for a record that lacks email, role or
\* passwordHash ends in a server error without a token, and no token is
\* issued whose claims lack the email or have a role outside admin, manager
\* and staff.
C15_CompleteRecordOnly ==
  /\ (RecordExists /\ ~RecordComplete)
       => (inflight.resp.status = 500 /\ ~IssuedToken)
  /\ (LoginExchange /\ IssuedToken)
       => /\ Get(TokenClaims, K_email).t = "str"
          /\ Get(TokenClaims, K_role).t = "str"
          /\ Get(TokenClaims, K_role).v \in Roles

\* C16: a successful login answers with the email and the role of the
\* stored record, the same that are inside the token; the record is the one
\* under the lower-cased submitted email, so the admin's address in upper
\* case with the admin's password logs the admin in, as its lower case does.
C16_LoginResult ==
  /\ (LoginExchange /\ IssuedToken)
       => /\ RecordExists
          /\ JsEq(inflight.resp.body.email, Get(kv[SubmittedKey], K_email))
          /\ JsEq(inflight.resp.body.role, Get(kv[SubmittedKey], K_role))
          /\ JsEq(Get(TokenClaims, K_email), inflight.resp.body.email)
          /\ JsEq(Get(TokenClaims, K_role), inflight.resp.body.role)
  /\ (/\ SubmittedBoth
      /\ Submitted(K_email).v \in {E_admin, E_adminUpper}
      /\ Submitted(K_password).v = Pw1)
       => /\ IssuedToken
          /\ JsEq(inflight.resp.body.email, JStr(E_admin))
          /\ JsEq(inflight.resp.body.role, JStr(R_admin))

\* C16 witness: the admin's address typed in upper case logged the admin in.
C16_Witness ==
  /\ SubmittedBoth
  /\ Submitted(K_email).v = E_adminUpper
  /\ IssuedToken
  /\ JsEq(inflight.resp.body.email, JStr(E_admin))
  /\ JsEq(Get(TokenClaims, K_role), JStr(R_admin))

\* C17 (as stated): every token generateJWT produced has exp = iat + 86400.
C17_ExactLifetime ==
  \A t \in tokens : ExpOf(t) = IatOf(t) + TokenLifetime

(***************************************************************************)
(* The properties of delegated access                                      *)
(***************************************************************************)

\* A call of getGoogleSheetsToken has finished.
TokenCallDone == inflight.phase = "token"

\* s ends with the decimal digits of n.
EndsWithNumber(s, n) ==
  /\ Len(s) >= Len(NumToString(n))
  /\ SubSeq(s, Len(s) - Len(NumToString(n)) + 1, Len(s)) = NumToString(n)

\* C18 (as stated): the assertion builder of either module returns a JWT
\* whose third segment is the RSA signature, made with the private key,
\* over its first two segments, or it fails with the signing error; with a
\* key that cannot be imported it fails.
C18_GenuineOrFails ==
  TokenCallDone =>
    /\ ~inflight.assertion.threw => EndpointVerifies(inflight.assertion.val)
    /\ inflight.key # ServiceKey
         => (inflight.assertion.threw /\ inflight.result.threw
             /\ inflight.result.message = SignErrorMessage)

\* The response in flight was made with the k-th exchange of the request
\* answered by a status that is not a success.
ExchangeFailed(k) ==
  /\ Busy
  /\ inflight.fault = (CASE k = 1 -> "exchange1" [] k = 2 -> "exchange2"
                         [] OTHER -> "exchange3")

\* C19 (as stated): when the token endpoint answers the exchange with a
\* status that is not a success, getGoogleSheetsToken throws an error whose
\* message carries the status and returns nothing, and the Sheets call the
\* token was fetched for is not made.
C19_FailedExchangeThrows ==
  /\ (TokenCallDone /\ inflight.exchanged /\ inflight.status # 200)
       => /\ inflight.result.threw
          /\ EndsWithNumber(inflight.result.message, inflight.status)
          /\ inflight.result.val = Undefined
  /\ ExchangeFailed(1) => ~LogHas("sheets.get")
  /\ ExchangeFailed(2) => ~LogHas("sheets.put.quantity")
  /\ ExchangeFailed(3) => ~LogHas("sheets.put.timestamp")

\* C20 (as stated): POST /api/update-stock answers {success: true} only if
\* no signing, exchange, read or write step failed and both writes were
\* made; a request whose delegated access or Sheets call failed is answered
\* with a server error.
C20_NoFabricatedSuccess ==
  (/\ Accepted
   /\ inflight.req.path = "/api/update-stock"
   /\ inflight.req.method = "POST")
    => /\ inflight.resp.body.kind = "success"
            => /\ inflight.fault = "none"
               /\ LogHas("sheets.put.quantity")
               /\ LogHas("sheets.put.timestamp")
       /\ (inflight.fault # "none" /\ LogHas("sign")) => inflight.resp.status = 500

(***************************************************************************)
(* Vocabulary of the Sheets calls and of the order of the checks           *)
(***************************************************************************)

SheetsCalls == {"sheets.get", "sheets.put.quantity", "sheets.put.timestamp"}

Count(e) == Cardinality({i \in 1..Len(inflight.log) : inflight.log[i] = e})

\* Every b of the log comes after an a.
Before(a, b) ==
  \A i \in 1..Len(inflight.log) :
    inflight.log[i] = b => \E j \in 1..(i - 1) : inflight.log[j] = a

\* An accepted POST to the path.
AcceptedPost(path) ==
  Accepted /\ inflight.req.method = "POST" /\ inflight.req.path = path

\* The cell ranges the log of the request in flight names.
RangesWritten ==
  {inflight.log[i] : i \in 1..Len(inflight.log)}
    \cap {CellRange(c, r) : c \in {"A", "B", "C", "D", "E", "F"},
                            r \in 0..(Len(SheetRows) + 2)}

\* The positions of SheetRows whose column A is the itemId of the request.
MatchingRows ==
  IF Get(inflight.req.body.val, K_itemId).t # "str" THEN {}
  ELSE {i \in 1..Len(SheetRows) : SheetRows[i] = Get(inflight.req.body.val, K_itemId).v}

\* The GET of updateStockInSheets was made and answered with the rows.
RowsRead == LogHas("sheets.get") /\ inflight.fault \notin {"exchange1", "read"}

\* C21: in the log of every request, each call to the Sheets backend comes
\* directly after an exchange that comes directly after a signing of its
\* own, and a stock update that made its three backend calls made three
\* signings and three exchanges.
C21_FreshTokenPerCall ==
  Busy =>
    /\ \A i \in 1..Len(inflight.log) :
         inflight.log[i] \in SheetsCalls
           => /\ i > 2
              /\ inflight.log[i - 1] = "exchange"
              /\ inflight.log[i - 2] = "sign"
    /\ (AcceptedPost("/api/update-stock") /\ LogHas("sheets.put.timestamp"))
         => /\ Count("sign") = 3
            /\ Count("exchange") = 3
            /\ Count("sheets.get") + Count("sheets.put.quantity")
                 + Count("sheets.put.timestamp") = 3

C21_Witness ==
  /\ AcceptedPost("/api/update-stock")
  /\ inflight.resp.status = 200
  /\ Count("sign") = 3
  /\ LogHas("sheets.put.timestamp")

\* The signature the secret gives for the header and payload presented.
ExpectedSignature ==
  createSignature(SubSeq(HeaderAndPayload(PresentedToken), 1,
                         Len(HeaderAndPayload(PresentedToken)) - 1),
                  JWT_SECRET)

\* C24 (as stated): verifyJWT's comparison of the presented signature with
\* the recomputed one of the same length looks at every character, wherever
\* the first difference is.
C24_ConstantTime ==
  (/\ BearsToken
   /\ NumDots(PresentedToken) = 2
   /\ Len(Split(PresentedToken)[3]) = Len(ExpectedSignature))
    => inflight.inspected = Len(ExpectedSignature)

\* C25 (as stated): every request that is not an OPTIONS request is answered
\* with a JSON response, and a request whose handler threw (a body that is
\* not JSON, a login email that is not a string) is answered with status
\* 500 and the error "Internal server error".
C25_AlwaysJson ==
  (Busy /\ inflight.req.method # "OPTIONS")
    => /\ inflight.resp.body.kind # "rejected"
       /\ (inflight.req.method = "POST" /\ ~inflight.req.body.json
            /\ LogHas("request.json"))
            => inflight.resp = jsonResponse(ErrorBody("Internal server error"), 500)

\* C26: on POST /api/update-stock and POST /api/telegram a request that is
\* not authenticated gets 401 and nothing but the authentication runs; a
\* role that is neither admin nor manager gets 403 with the body unread; 400
\* goes only to admin or manager, after the body was read and before any
\* external call; and an update with quantity 0 and an item id is not
\* answered 400.
C26_CheckOrder ==
  (/\ ProtectedExchange
   /\ inflight.req.method = "POST"
   /\ inflight.req.path \in {"/api/update-stock", "/api/telegram"})
    => /\ ~Accepted => inflight.resp.status = 401 /\ OnlyAuthRan
       /\ (Accepted /\ ~RoleIs(R_admin) /\ ~RoleIs(R_manager))
            => /\ inflight.resp.status = 403
               /\ ~LogHas("request.json")
               /\ NoExternalCall
       /\ inflight.resp.status = 400
            => /\ RoleIs(R_admin) \/ RoleIs(R_manager)
               /\ LogHas("request.json")
               /\ NoExternalCall
               /\ inflight.req.body.json
               /\ IF inflight.req.path = "/api/telegram"
                  THEN Falsy(Get(inflight.req.body.val, K_message))
                  ELSE \/ Falsy(Get(inflight.req.body.val, K_itemId))
                       \/ Get(inflight.req.body.val, K_quantity) = Undefined
       /\ Before("verifyAuth", "roleCheck")
       /\ Before("roleCheck", "request.json")
       /\ \A e \in ExternalCalls : Before("request.json", e)
       /\ (/\ Accepted
           /\ RoleIs(R_admin) \/ RoleIs(R_manager)
           /\ inflight.req.path = "/api/update-stock"
           /\ inflight.req.body.json
           /\ ~Falsy(Get(inflight.req.body.val, K_itemId))
           /\ Get(inflight.req.body.val, K_quantity) = JNum(0))
            => inflight.resp.status # 400 /\ LogHas("sign")

C26_Witness ==
  /\ AcceptedPost("/api/update-stock")
  /\ RoleIs(R_staff)
  /\ ~inflight.req.body.json
  /\ inflight.resp.status = 403

\* C28: an update whose itemId is in no row that was read writes nothing
\* and is answered 500 "Failed to update stock"; an update that writes,
\* writes columns D and F of the sheet row of the first matching row (its
\* 0-based index + 2) and of no other row.
C28_RowWritten ==
  (AcceptedPost("/api/update-stock") /\ inflight.req.body.json)
    => /\ (RowsRead /\ MatchingRows = {})
            => /\ RangesWritten = {}
               /\ ~LogHas("sheets.put.quantity")
               /\ ~LogHas("sheets.put.timestamp")
               /\ inflight.resp = jsonResponse(ErrorBody("Failed to update stock"), 500)
       /\ RangesWritten # {}
            => /\ MatchingRows # {}
               /\ \A first \in MatchingRows :
                    (\A i \in MatchingRows : first <= i)
                      => RangesWritten
                           \subseteq {CellRange("D", (first - 1) + 2),
                                      CellRange("F", (first - 1) + 2)}
       /\ inflight.resp.status = 200
            => Cardinality(RangesWritten) = 2

C28_Witness ==
  /\ AcceptedPost("/api/update-stock")
  /\ Cardinality(MatchingRows) > 1
  /\ inflight.resp.status = 200
  /\ RangesWritten = {"Inventory!D2", "Inventory!F2"}

\* C30: verifyJWT checks the part count, then the signature, then the
\* expiry: a token of other than three parts is "Invalid token"; a token of
\* three parts whose signature is not the one the secret gives is "Invalid
\* signature" whatever its payload and its expiry; the errors of decoding,
\* parsing and expiry are thrown only for a token signed with the secret.
C30_VerifyOrder ==
  BearsToken =>
    /\ NumDots(PresentedToken) # 2 => inflight.err = ErrInvalidToken
    /\ NumDots(PresentedToken) = 2
         => IF Split(PresentedToken)[3] = ExpectedSignature
            THEN inflight.err \in {NoError, ErrTokenExpired, ErrDecode, ErrSyntax}
            ELSE inflight.err = ErrInvalidSignature

C30_Witness ==
  \E t \in tokens :
    /\ PresentsOtherSignature(t)
    /\ NumDots(PresentedToken) = 2
    /\ ExpOf(t) < inflight.at
    /\ inflight.err = ErrInvalidSignature

(***************************************************************************)
(* Vocabulary of the concurrent worker                                     *)
(***************************************************************************)

SameOutcome(slot, alone) == slot.resp = alone.resp /\ slot.log = alone.log

FinishedProtected(r) ==
  slots[r].stage = "done" /\ slots[r].req.path # "/api/auth/login"

FinishedLogin(r) ==
  slots[r].stage = "done" /\ slots[r].req.path = "/api/auth/login"

SlotLogHas(r, e) == \E i \in 1..Len(slots[r].log) : slots[r].log[i] = e

\* The role the token of the request r was signed with.
BearerRole(r) == Get(slots[r].bearer.claims, K_role)

\* C22: whatever the other request in progress does between the steps of a
\* request, the response and the calls of the request are those fetch gives
\* for the request alone, with the store contents and the clock reading the
\* request read.
C22_AsIfAlone ==
  \A r \in Requests :
    slots[r].stage = "done"
      => SameOutcome(slots[r],
                     fetch(slots[r].req, slots[r].store, slots[r].at, slots[r].at, "none"))

C22_Witness ==
  \E r \in Requests, q \in Requests :
    /\ FinishedProtected(r)
    /\ slots[r].resp.status = 200
    /\ slots[q].stage = "looked-up"

\* C23 (as stated): there is a number of requests after which, while the
\* clock has not moved, a further login is rejected without the password
\* being verified.
C23_RateLimited ==
  \E limit \in 1..(MaxAttempts - 1) :
    \A r \in Requests :
      (FinishedLogin(r) /\ slots[r].ordinal > limit /\ now = T0)
        => /\ ~SlotLogHas(r, "verifyPassword")
           /\ slots[r].resp.status \notin {200, 401}

\* C27: a request bearing an issued token is answered by the token alone:
\* rejected with 401 once the token's exp has passed and, until then,
\* accepted with the email and role that were signed, /api/update-stock
\* refusing with 403 exactly the signed roles other than admin and manager,
\* whatever the store holds for the user by then.
C27_TokenRoleOnly ==
  \A r \in Requests :
    FinishedProtected(r)
      => IF ExpOf(slots[r].bearer) < slots[r].at
         THEN slots[r].resp = Unauthorized
         ELSE /\ slots[r].resp # Unauthorized
              /\ slots[r].req.path = "/api/user"
                   => /\ slots[r].resp.status = 200
                      /\ slots[r].resp.body.role = BearerRole(r)
                      /\ slots[r].resp.body.email = Get(slots[r].bearer.claims, K_email)
              /\ slots[r].req.path = "/api/update-stock"
                   => IF BearerRole(r) \in {JStr(R_admin), JStr(R_manager)}
                      THEN slots[r].resp.status = 200
                      ELSE slots[r].resp.status = 403

C27_Witness ==
  \E r \in Requests :
    /\ FinishedProtected(r)
    /\ slots[r].req.path = "/api/update-stock"
    /\ slots[r].resp.status = 200
    /\ BearerRole(r) = JStr(R_admin)
    /\ \/ AdminKey \notin DOMAIN slots[r].store
       \/ Get(slots[r].store[AdminKey], K_role) = JStr(R_staff)

(***************************************************************************)
(* Vocabulary of the browser client                                        *)
(***************************************************************************)

AllPresent ==
  /\ client.items.authToken # Null
  /\ client.items.userRole # Null
  /\ client.items.userEmail # Null

AllAbsent == client.items = NoItems

\* The step in which the submit handler takes a login response that is not
\* a success.
FailedLoginStep ==
  /\ Busy
  /\ inflight.req.path = "/api/auth/login"
  /\ inflight.resp.status # 200
  /\ inflight' = Idle

\* The step in which logout ran or apiRequest took a 401.
SessionEndStep ==
  /\ client' # client
  /\ client'.last \in {"logged-out", "session-expired"}

\* The step in which a request to a protected path is sent.
ApiSendStep ==
  /\ inflight = Idle
  /\ inflight' # Idle
  /\ inflight'.req.path # "/api/auth/login"

\* C29: the three stored items authToken, userRole and userEmail are all
\* present or all absent in every state; a login that fails leaves them as
\* they were; logout and a 401 leave none of them, so that getAuthToken
\* returns null; apiRequest sends a request only with a stored token, the
\* stored one, and without one throws "Not authenticated".
C29_StoredItems ==
  /\ [](AllPresent \/ AllAbsent)
  /\ [](client.last = "not-authenticated" => NoToken(client.items))
  /\ [][FailedLoginStep => client'.items = client.items]_vars
  /\ [][SessionEndStep => client'.items = NoItems]_vars
  /\ [][ApiSendStep
         => /\ ~NoToken(client.items)
            /\ inflight'.req.auth = Header(BearerPrefix \o client.items.authToken)]_vars

C29_Witness ==
  /\ client.last = "not-authenticated"
  /\ AllAbsent
  /\ inflight = Idle
  /\ now > T0 + TokenLifetime

====
